---- MODULE Spec2Model ----
(***************************************************************************)
(* Model of the data-access layer of the project/task tracker:             *)
(*   - TaskService     (src/src/services/taskService.ts)                   *)
(*   - ProjectService  (src/src/utils/typeCompatibility.ts)                *)
(*   - the schema and row-level-security policies (src/unnamed/part_000)   *)
(*   - the raw-SQL ProjectService (src/src/services/projectService.ts)     *)
(*   - the authentication context (src/src/contexts/AuthContext.tsx)       *)
(* Two backends are modelled: the demo mode (supabase client not           *)
(* configured, state kept in localStorage) and the managed backend         *)
(* (Postgres tables behind row-level security).                            *)
(***************************************************************************)
EXTENDS Integers, Sequences, FiniteSets, TLC

VARIABLES
  supabase,         \* TRUE iff the supabase client is configured (managed backend)
  lsProjects,       \* localStorage['lovable-demo-projects']: sequence of projects
  lsActivityLog,    \* localStorage['lovable-demo-activity-log']
  demoProjects,     \* ProjectService's in-memory project list (demo mode)
  demoActivityLog,  \* ProjectService's in-memory activity log (demo mode)
  authUser,         \* supabase.auth.getUser(): the signed-in principal or NULL
  projects,         \* table public.projects (set of rows)
  tasks,            \* table public.tasks (set of rows)
  custom_fields,    \* table public.custom_fields (set of rows)
  activity_log,     \* table public.activity_log (sequence of rows, insertion order)
  nextId,           \* next value of generateId / gen_random_uuid
  authUsers,        \* table auth.users: the principals that exist
  clock,            \* NOW() of the database
  backend,          \* import.meta.env.VITE_BACKEND_TYPE, read at module load
  authBackend,      \* AuthProvider's authBackend state
  user,             \* AuthProvider's user state
  authToken,        \* localStorage['authToken']: the principal the token names
  dbo,              \* SQL Server tables dbo.users and dbo.profiles
  inflight,         \* service calls that have started and not yet returned
  pageProject,      \* ProjectDetail's project state: <<>> (null) or <<project>>
  last              \* the last service call: its arguments and its outcome

vars == <<supabase, lsProjects, lsActivityLog, demoProjects, demoActivityLog,
          authUser, projects, tasks, custom_fields, activity_log, nextId,
          authUsers, clock, backend, authBackend, user, authToken,
          dbo, inflight, pageProject, last>>

auxVars == <<dbo, inflight, pageProject>>

authVars == <<backend, authBackend, user, authToken>>

demoVars == <<lsProjects, lsActivityLog, demoProjects, demoActivityLog>>
dbVars   == <<projects, tasks, custom_fields, activity_log>>

----------------------------------------------------------------------------
(* Bounds of the model *)

MaxTaskIds == 3      \* highest id handed out in the progress and date runs
MaxDepIds  == 4      \* highest id handed out in the dependency runs
MaxDemoIds == 3      \* highest id handed out in the demo-mode project runs
MaxDbIds   == 2      \* highest id handed out in the managed-backend runs
MaxRlsIds  == 2      \* highest project id handed out in the row-level-security runs
MaxLog     == 3      \* activity-log entries kept in demo mode
MaxDbLog   == 2      \* activity-log rows kept on the managed backend
MaxSqlIds  == 3      \* highest id handed out in the raw-SQL runs
MaxUserIds == 3      \* highest id handed out in the runs that delete users
MaxBatch   == 5      \* longest list handed to importTasks in demo mode
MaxDbBatch == 3      \* longest list handed to importTasks on the managed backend
MaxImportIds == 3    \* highest id handed out before an import starts
MaxSignupIds == 3    \* highest user id handed out by signup
MaxCalls   == 2      \* service calls that overlap
MaxCallIds == 2      \* highest id handed out before overlapping calls start

(* Program constants *)

NULL   == "null"     \* JavaScript null / undefined, SQL NULL (principals, strings)
NullId == 0          \* null task reference (ids are positive)
DemoId == 1          \* the sample project's fixed id '1'
Now    == 1          \* new Date(): the day a call is made
DemoUser == "demo_user"

\* the principals registered when the application starts
Users == {"u1", "u2"}

\* AuthContext: the backend the provider starts with
initialBackend(configured) == IF configured = NULL THEN "sqlserver" ELSE configured

Statuses == {"not-started", "in-progress", "completed", "on-hold",
             "impacted", "on-going", "dev-in-progress", "done"}

DbStatuses == {"not-started", "in-progress", "completed", "on-hold"}

ProjectStatuses == {"active", "completed", "archived"}

----------------------------------------------------------------------------
(* JavaScript object helpers *)

Has(o, f) == f \in DOMAIN o

\* { ...a, ...b }
Merge(a, b) == [f \in DOMAIN a \cup DOMAIN b |-> IF f \in DOMAIN b THEN b[f] ELSE a[f]]

\* arr.findIndex(x => x.id === id), 0 standing for -1
FindIndex(arr, id) ==
  IF \E i \in 1..Len(arr) : arr[i].id = id
  THEN CHOOSE i \in 1..Len(arr) : arr[i].id = id /\ \A j \in 1..(i-1) : arr[j].id # id
  ELSE 0

Range(s) == {s[i] : i \in 1..Len(s)}

----------------------------------------------------------------------------
(* The world a service call runs in, and what a call gives back *)

World ==
  [supabase |-> supabase, lsProjects |-> lsProjects, lsActivityLog |-> lsActivityLog,
   demoProjects |-> demoProjects, demoActivityLog |-> demoActivityLog,
   authUser |-> authUser, projects |-> projects, tasks |-> tasks,
   custom_fields |-> custom_fields, activity_log |-> activity_log, nextId |-> nextId,
   authUsers |-> authUsers, clock |-> clock]

\* the call returned `ret`; logged tells what became of its activity-log write:
\* "ok" (an entry was stored), "error" (the write failed), "none" (no write made)
Return(w, ret) == [w |-> w, ok |-> TRUE, err |-> "", ret |-> ret, logged |-> "none"]

\* the call threw `err`
Throw(w, err) == [w |-> w, ok |-> FALSE, err |-> err, ret |-> NULL, logged |-> "none"]

\* a service that throws when its activity-log write failed
ReturnLoggedStrict(l, ret) ==
  IF l.logged = "error"
  THEN [w |-> l.w, ok |-> FALSE, err |-> "log", ret |-> NULL, logged |-> l.logged]
  ELSE [w |-> l.w, ok |-> TRUE, err |-> "", ret |-> ret, logged |-> l.logged]

\* await this.logActivity(...); return data: l is what logActivity left behind,
\* and the call returns whatever became of the log write
ReturnLogged(l, ret) ==
  [w |-> l.w, ok |-> TRUE, err |-> "", ret |-> ret, logged |-> l.logged]

----------------------------------------------------------------------------
(* TaskService, demo mode: every call loads the projects blob from          *)
(* localStorage and saves it back                                           *)

\* the Task object createTask builds from a Partial<TaskInsert>
NewTaskDemo(id, task) ==
  [id           |-> id,
   project_id   |-> task.project_id,
   status       |-> IF Has(task, "status") THEN task.status ELSE "not-started",
   start_date   |-> IF Has(task, "start_date") THEN task.start_date ELSE Now,
   end_date     |-> IF Has(task, "end_date") THEN task.end_date ELSE Now,
   dependencies |-> IF Has(task, "dependencies") THEN task.dependencies ELSE <<>>,
   assignee     |-> IF Has(task, "assignee") THEN task.assignee ELSE NULL,
   progress     |-> IF Has(task, "progress") THEN task.progress ELSE 0]

createTaskDemo(w, task) ==
  LET projectIndex == IF Has(task, "project_id")
                      THEN FindIndex(w.lsProjects, task.project_id) ELSE 0
      newTask      == NewTaskDemo(w.nextId, task)
  IN  IF projectIndex # 0
      THEN Return([w EXCEPT !.lsProjects[projectIndex].tasks = Append(@, newTask),
                            !.nextId = @ + 1],
                  newTask)
      ELSE Throw(w, "Project not found")

\* an update that merges into every task of the project, not only the one found
updateTaskDemoAll(w, id, projectId, updates) ==
  LET projectIndex == FindIndex(w.lsProjects, projectId)
      taskIndex    == IF projectIndex # 0
                      THEN FindIndex(w.lsProjects[projectIndex].tasks, id) ELSE 0
  IN  IF projectIndex # 0 /\ taskIndex # 0
      THEN LET old == w.lsProjects[projectIndex].tasks
               new == [k \in 1..Len(old) |-> Merge(old[k], updates)]
           IN  Return([w EXCEPT !.lsProjects[projectIndex].tasks = new], new[taskIndex])
      ELSE Throw(w, "Task not found")

updateTaskDemo(w, id, projectId, updates) ==
  LET projectIndex == FindIndex(w.lsProjects, projectId)
      taskIndex    == IF projectIndex # 0
                      THEN FindIndex(w.lsProjects[projectIndex].tasks, id) ELSE 0
  IN  IF projectIndex # 0 /\ taskIndex # 0
      THEN LET updatedTask == Merge(w.lsProjects[projectIndex].tasks[taskIndex], updates)
           IN  Return([w EXCEPT !.lsProjects[projectIndex].tasks[taskIndex] = updatedTask],
                      updatedTask)
      ELSE Throw(w, "Task not found")

\* a delete that returns quietly when it removed nothing
deleteTaskDemoSilent(w, id, projectId) ==
  LET projectIndex == FindIndex(w.lsProjects, projectId)
      kept         == IF projectIndex # 0
                      THEN SelectSeq(w.lsProjects[projectIndex].tasks, LAMBDA t : t.id # id)
                      ELSE <<>>
  IN  IF projectIndex # 0
      THEN Return([w EXCEPT !.lsProjects[projectIndex].tasks = kept], NULL)
      ELSE Return(w, NULL)

deleteTaskDemo(w, id, projectId) ==
  LET projectIndex == FindIndex(w.lsProjects, projectId)
      kept         == IF projectIndex # 0
                      THEN SelectSeq(w.lsProjects[projectIndex].tasks, LAMBDA t : t.id # id)
                      ELSE <<>>
  IN  IF projectIndex # 0 /\ Len(kept) < Len(w.lsProjects[projectIndex].tasks)
      THEN Return([w EXCEPT !.lsProjects[projectIndex].tasks = kept], NULL)
      ELSE Throw(w, "Task not found")

----------------------------------------------------------------------------
(* The managed backend: schema constraints and row-level security           *)

\* a policy that lets only the owner through
ProjectPolicyOwnerOnly(uid, row) == uid # NULL /\ uid = row.created_by

\* USING (auth.uid() = created_by OR team_members @> to_jsonb(auth.uid()::text))
\* of the policies on public.projects, which are all TO authenticated
ProjectPolicy(uid, row) ==
  uid # NULL /\ (uid = row.created_by \/ uid \in row.team_members)

\* public.can_access_project(p_project_id), evaluated for auth.uid() = uid
can_access_project(w, uid, p_project_id) ==
  \E p \in w.projects : p.id = p_project_id /\ ProjectPolicy(uid, p)

\* WITH CHECK (auth.uid() = created_by) of the INSERT policy on public.projects
ProjectInsertPolicy(uid, row) == uid # NULL /\ uid = row.created_by

\* the CHECK constraint of public.projects
ProjectChecks(row) == row.status \in ProjectStatuses

\* the CHECK constraints of public.tasks
TaskChecks(row) ==
  /\ row.status \in DbStatuses
  /\ row.progress >= 0 /\ row.progress <= 100
  /\ row.end_date >= row.start_date

\* tasks.assignee REFERENCES auth.users(id)
TaskForeignKeys(w, row) == row.assignee = NULL \/ row.assignee \in w.authUsers

\* the foreign keys of public.activity_log
ActivityForeignKeys(w, row) ==
  /\ \E p \in w.projects : p.id = row.project_id
  /\ row.task_id = NullId \/ \E t \in w.tasks : t.id = row.task_id

\* an insert policy that does not look at user_id
ActivityInsertPolicyAnyUser(w, uid, row) ==
  uid # NULL /\ can_access_project(w, uid, row.project_id)

\* WITH CHECK (user_id = auth.uid() AND public.can_access_project(project_id))
ActivityInsertPolicy(w, uid, row) ==
  uid # NULL /\ row.user_id = uid /\ can_access_project(w, uid, row.project_id)

\* supabase.from('activity_log').insert([row]): the row is appended when the
\* request reaches the database and passes the policy and the foreign keys;
\* otherwise the client resolves to an error object and nothing is stored
InsertActivity(w, row, reachable) ==
  IF reachable /\ ActivityInsertPolicy(w, w.authUser, row) /\ ActivityForeignKeys(w, row)
  THEN [w |-> [w EXCEPT !.activity_log = Append(@, row)], logged |-> "ok"]
  ELSE [w |-> w, logged |-> "error"]

\* a schema whose references to auth.users are ON DELETE CASCADE: the rows
\* that name the deleted user go with it, and so do the rows under them
deleteUserCascade(w, u) ==
  LET gone     == {p.id : p \in {p \in w.projects : p.created_by = u}}
      lost     == {t \in w.tasks : t.assignee = u \/ t.project_id \in gone}
  IN  [w EXCEPT !.authUsers = @ \ {u},
                !.authUser = IF @ = u THEN NULL ELSE @,
                !.projects = {p \in @ : p.created_by # u},
                !.tasks = @ \ lost,
                !.custom_fields = {f \in @ : f.project_id \notin gone},
                !.activity_log = SelectSeq(@, LAMBDA e :
                                   e.user_id # u /\ e.project_id \notin gone)]

\* DELETE FROM auth.users WHERE id = u: the user's sessions end, and the
\* ON DELETE SET NULL references projects.created_by, tasks.assignee and
\* activity_log.user_id are cleared
deleteUser(w, u) ==
  [w EXCEPT !.authUsers = @ \ {u},
            !.authUser = IF @ = u THEN NULL ELSE @,
            !.projects = {IF p.created_by = u THEN [p EXCEPT !.created_by = NULL] ELSE p :
                            p \in @},
            !.tasks = {IF t.assignee = u THEN [t EXCEPT !.assignee = NULL] ELSE t : t \in @},
            !.activity_log = [i \in 1..Len(@) |->
                                IF @[i].user_id = u THEN [@[i] EXCEPT !.user_id = NULL]
                                ELSE @[i]]]

\* ON DELETE SET NULL of activity_log.task_id
ClearTaskRefs(log, gone) ==
  [i \in 1..Len(log) |-> IF log[i].task_id \in gone
                         THEN [log[i] EXCEPT !.task_id = NullId] ELSE log[i]]

----------------------------------------------------------------------------
(* TaskService, managed backend *)

\* TaskService.logActivity: skipped without a signed-in user; the result of
\* the insert is not looked at
logActivityTask(w, projectId, action, taskId, reachable) ==
  IF ~w.supabase THEN [w |-> w, logged |-> "none"]
  ELSE IF w.authUser # NULL
       THEN InsertActivity(w, [project_id |-> projectId, task_id |-> taskId,
                               user_id |-> w.authUser, action |-> action], reachable)
       ELSE [w |-> w, logged |-> "none"]

\* the row createTask sends: defaults filled in by the service
TaskDataSupabase(id, task) ==
  [id           |-> id,
   project_id   |-> IF Has(task, "project_id") THEN task.project_id ELSE NullId,
   status       |-> IF Has(task, "status") THEN task.status ELSE "not-started",
   start_date   |-> IF Has(task, "start_date") THEN task.start_date ELSE Now,
   end_date     |-> IF Has(task, "end_date") THEN task.end_date ELSE Now,
   dependencies |-> IF Has(task, "dependencies") THEN task.dependencies ELSE <<>>,
   assignee     |-> IF Has(task, "assignee") THEN task.assignee ELSE NULL,
   progress     |-> IF Has(task, "progress") THEN task.progress ELSE 0]

createTaskSupabase(w, task, reachable) ==
  LET data == TaskDataSupabase(w.nextId, task)
  IN  IF /\ can_access_project(w, w.authUser, data.project_id)
         /\ TaskChecks(data) /\ TaskForeignKeys(w, data)
      THEN LET w1 == [w EXCEPT !.tasks = @ \cup {data}, !.nextId = @ + 1]
           IN  ReturnLogged(logActivityTask(w1, data.project_id, "task_created", data.id, reachable),
                      data)
      ELSE Throw(w, "db")

updateTaskSupabase(w, id, updates, reachable) ==
  LET rows == {t \in w.tasks : t.id = id /\ can_access_project(w, w.authUser, t.project_id)}
  IN  IF rows = {} THEN Throw(w, "db")
      ELSE LET old  == CHOOSE t \in rows : TRUE
               data == Merge(old, updates)
           IN  IF /\ TaskChecks(data) /\ TaskForeignKeys(w, data)
                  /\ can_access_project(w, w.authUser, data.project_id)
               THEN LET w1 == [w EXCEPT !.tasks = (@ \ {old}) \cup {data}]
                    IN  ReturnLogged(logActivityTask(w1, data.project_id, "task_updated", id, reachable),
                               data)
               ELSE Throw(w, "db")

deleteTaskSupabase(w, id, projectId, reachable) ==
  LET rows == {t \in w.tasks : t.id = id /\ can_access_project(w, w.authUser, t.project_id)}
      gone == {t.id : t \in rows}
      w1   == [w EXCEPT !.tasks = @ \ rows,
                        !.activity_log = ClearTaskRefs(@, gone)]
  IN  ReturnLogged(logActivityTask(w1, projectId, "task_deleted", id, reachable), NULL)

----------------------------------------------------------------------------
(* TaskService: the public methods *)

createTask(w, task, reachable) ==
  IF ~w.supabase THEN createTaskDemo(w, task) ELSE createTaskSupabase(w, task, reachable)

updateTask(w, id, projectId, updates, reachable) ==
  IF ~w.supabase THEN updateTaskDemo(w, id, projectId, updates)
  ELSE updateTaskSupabase(w, id, updates, reachable)

deleteTask(w, id, projectId, reachable) ==
  IF ~w.supabase THEN deleteTaskDemo(w, id, projectId)
  ELSE deleteTaskSupabase(w, id, projectId, reachable)

\* an import loop that gives up at the first item that fails
RECURSIVE importTasksDemoAbortLoop(_, _, _)
importTasksDemoAbortLoop(w, items, results) ==
  IF items = <<>> THEN Return(w, results)
  ELSE LET task == Head(items)
           r    == createTask(w, task, TRUE)
       IN  IF Has(task, "project_id") /\ task.project_id # NullId /\ r.ok
           THEN importTasksDemoAbortLoop(r.w, Tail(items), Append(results, r.ret))
           ELSE Return(w, results)

importTasksDemoAbort(w, items) == importTasksDemoAbortLoop(w, items, <<>>)

\* the for loop of importTasks in demo mode: an item without project_id is
\* skipped, a createTask that throws is caught, the others are pushed
RECURSIVE importTasksDemoLoop(_, _, _)
importTasksDemoLoop(w, items, results) ==
  IF items = <<>> THEN Return(w, results)
  ELSE LET task == Head(items)
           r    == createTask(w, task, TRUE)
       IN  IF Has(task, "project_id") /\ task.project_id # NullId
           THEN IF r.ok
                THEN importTasksDemoLoop(r.w, Tail(items), Append(results, r.ret))
                ELSE importTasksDemoLoop(w, Tail(items), results)
           ELSE importTasksDemoLoop(w, Tail(items), results)

importTasksDemo(w, items) == importTasksDemoLoop(w, items, <<>>)

\* the rows importTasks prepares; the database hands out the ids
preparedTasks(w, items) ==
  [i \in 1..Len(items) |-> TaskDataSupabase(w.nextId + i - 1, items[i])]

\* whether the database takes the row: INSERT policy, CHECKs, foreign keys
TaskInsertable(w, row) ==
  can_access_project(w, w.authUser, row.project_id) /\ TaskChecks(row) /\ TaskForeignKeys(w, row)

\* an import that inserts row after row and stops at the first one refused
importTasksSupabaseRowByRow(w, items, reachable) ==
  LET rows == preparedTasks(w, items)
      bad  == {i \in 1..Len(rows) : ~TaskInsertable(w, rows[i])}
      upTo == IF bad = {} THEN Len(rows) ELSE (CHOOSE i \in bad : \A j \in bad : i <= j) - 1
      w1   == [w EXCEPT !.tasks = @ \cup {rows[i] : i \in 1..upTo}, !.nextId = @ + upTo]
  IN  IF bad # {} THEN Throw(w1, "db")
      ELSE IF Len(rows) > 0
           THEN ReturnLogged(logActivityTask(w1, rows[1].project_id, "tasks_imported",
                                             NullId, reachable), rows)
           ELSE Return(w1, rows)

\* importTasks on the managed backend: one insert(preparedTasks) statement,
\* then one 'tasks_imported' entry for the project of the first row
importTasksSupabase(w, items, reachable) ==
  LET rows == preparedTasks(w, items)
      w1   == [w EXCEPT !.tasks = @ \cup Range(rows), !.nextId = @ + Len(rows)]
  IN  IF \E i \in 1..Len(rows) : ~TaskInsertable(w, rows[i]) THEN Throw(w, "db")
      ELSE IF Len(rows) > 0
           THEN ReturnLogged(logActivityTask(w1, rows[1].project_id, "tasks_imported",
                                             NullId, reachable), rows)
           ELSE Return(w1, rows)

\* TaskService.importTasks
importTasks(w, items, reachable) ==
  IF ~w.supabase THEN importTasksDemo(w, items) ELSE importTasksSupabase(w, items, reachable)

\* rows in the order they were created (ids are handed out in that order)
RECURSIVE InCreationOrder(_)
InCreationOrder(rows) ==
  IF rows = {} THEN <<>>
  ELSE LET first == CHOOSE r \in rows : \A q \in rows : r.id <= q.id
       IN  <<first>> \o InCreationOrder(rows \ {first})

\* TaskService.getProjectTasks: project?.tasks || [] from the localStorage
\* blob in demo mode; the rows the SELECT policy shows, oldest first, on the
\* managed backend
getProjectTasks(w, projectId) ==
  IF ~w.supabase
  THEN LET pi == FindIndex(w.lsProjects, projectId)
       IN  IF pi # 0 THEN w.lsProjects[pi].tasks ELSE <<>>
  ELSE InCreationOrder({t \in w.tasks : /\ t.project_id = projectId
                                        /\ can_access_project(w, w.authUser, projectId)})

\* the tasks updateTaskProgress finds: project?.tasks?.find(...) in demo mode,
\* select('*').eq('id', id).single() on the managed backend
FindTask(w, id, projectId) ==
  IF ~w.supabase
  THEN LET pi == FindIndex(w.lsProjects, projectId)
           ti == IF pi # 0 THEN FindIndex(w.lsProjects[pi].tasks, id) ELSE 0
       IN  IF ti # 0 THEN {w.lsProjects[pi].tasks[ti]} ELSE {}
  ELSE {t \in w.tasks : t.id = id /\ can_access_project(w, w.authUser, t.project_id)}

\* a derivation that treats only negative progress as not started
deriveStatusStrict(progress, status) ==
  IF progress < 0 THEN "not-started"
  ELSE IF progress >= 100 THEN "completed"
  ELSE IF status = "not-started" \/ status = "completed" THEN "in-progress"
  ELSE status

\* the status updateTaskProgress derives from the new progress
deriveStatus(progress, status) ==
  IF progress <= 0 THEN "not-started"
  ELSE IF progress >= 100 THEN "completed"
  ELSE IF status = "not-started" \/ status = "completed" THEN "in-progress"
  ELSE status

updateTaskProgress(w, id, projectId, progress, reachable) ==
  LET found == FindTask(w, id, projectId)
  IN  IF found = {} THEN Throw(w, IF w.supabase THEN "db" ELSE "Task not found")
      ELSE LET taskToUpdate == CHOOSE t \in found : TRUE
               newStatus    == deriveStatus(progress, taskToUpdate.status)
               updates      == IF newStatus # taskToUpdate.status
                               THEN [progress |-> progress, status |-> newStatus]
                               ELSE [progress |-> progress]
           IN  updateTask(w, id, projectId, updates, reachable)

\* TaskService.getTaskDependencies: the tasks it returns (ok), or its failure
getTaskDependencies(w, taskId) ==
  IF ~w.supabase
  THEN LET owners == {i \in 1..Len(w.lsProjects) :
                        FindIndex(w.lsProjects[i].tasks, taskId) # 0}
       IN  IF owners = {} THEN [ok |-> TRUE, rows |-> {}]
           ELSE LET pi   == CHOOSE i \in owners : \A j \in owners : i <= j
                    proj == w.lsProjects[pi]
                    task == proj.tasks[FindIndex(proj.tasks, taskId)]
                IN  [ok   |-> TRUE,
                     rows |-> {proj.tasks[k] : k \in {k \in 1..Len(proj.tasks) :
                                 proj.tasks[k].id \in Range(task.dependencies)}}]
  ELSE LET rows == {t \in w.tasks : t.id = taskId
                                    /\ can_access_project(w, w.authUser, t.project_id)}
       IN  IF rows = {} THEN [ok |-> FALSE, rows |-> {}]
           ELSE LET task == CHOOSE t \in rows : TRUE
                IN  [ok   |-> TRUE,
                     rows |-> {t \in w.tasks :
                                 /\ t.id \in Range(task.dependencies)
                                 /\ can_access_project(w, w.authUser, t.project_id)}]

\* dependencies.every(dep => dep.status === 'completed' || dep.status === 'done')
AllCompleted(dependencies) ==
  \A dep \in dependencies : dep.status = "completed" \/ dep.status = "done"

canStartTask(w, taskId) ==
  LET dependencies == getTaskDependencies(w, taskId)
  IN  IF ~dependencies.ok THEN Throw(w, "db")
      ELSE IF dependencies.rows = {} THEN Return(w, TRUE)
      ELSE Return(w, AllCompleted(dependencies.rows))

----------------------------------------------------------------------------
(* ProjectService *)

\* ProjectService.logActivity: unshift and save in demo mode, an insert whose
\* result is not looked at on the managed backend
logActivityProject(w, projectId, userId, action, reachable) ==
  LET logEntry == [project_id |-> projectId, task_id |-> NullId,
                   user_id |-> userId, action |-> action]
  IN  IF ~w.supabase
      THEN LET log == <<logEntry>> \o w.demoActivityLog
           IN  [w |-> [w EXCEPT !.demoActivityLog = log, !.lsActivityLog = log],
                logged |-> "ok"]
      ELSE InsertActivity(w, logEntry, reachable)

\* ProjectService.initializeDemoData
initializeDemoData(w) ==
  IF ~w.supabase /\ Len(w.demoProjects) = 0
  THEN LET sample == <<[id |-> DemoId, status |-> "active", created_by |-> DemoUser,
                        team_members |-> {"Demo User"}, tasks |-> <<>>]>>
           log    == <<[project_id |-> DemoId, task_id |-> NullId,
                        user_id |-> DemoUser, action |-> "project_created"]>>
       IN  Return([w EXCEPT !.demoProjects = sample, !.demoActivityLog = log,
                            !.lsProjects = sample, !.lsActivityLog = log], NULL)
  ELSE Return(w, NULL)

\* ProjectService.getProject: demoProjects.find(...) || null in demo mode; the
\* row the SELECT policy shows, or null, on the managed backend
getProject(w, id) ==
  IF ~w.supabase
  THEN LET pi == FindIndex(w.demoProjects, id)
       IN  IF pi # 0 THEN w.demoProjects[pi] ELSE NULL
  ELSE LET rows == {p \in w.projects : p.id = id /\ ProjectPolicy(w.authUser, p)}
       IN  IF rows = {} THEN NULL ELSE CHOOSE p \in rows : TRUE

\* the row a project insert/update carries: status and team_members
createProject(w, project, reachable) ==
  IF ~w.supabase
  THEN LET newProject == [id |-> w.nextId, status |-> project.status,
                          created_by |-> DemoUser,
                          team_members |-> project.team_members, tasks |-> <<>>]
           list       == Append(w.demoProjects, newProject)
           w1         == [w EXCEPT !.demoProjects = list, !.lsProjects = list,
                                   !.nextId = @ + 1]
       IN  ReturnLogged(logActivityProject(w1, newProject.id, DemoUser, "project_created", reachable),
                  newProject)
  ELSE IF w.authUser = NULL THEN Throw(w, "User not authenticated")
  ELSE LET data == [id |-> w.nextId, status |-> project.status,
                    created_by |-> w.authUser, team_members |-> project.team_members]
           w1   == [w EXCEPT !.projects = @ \cup {data}, !.nextId = @ + 1]
       IN  IF ProjectInsertPolicy(w.authUser, data) /\ ProjectChecks(data)
           THEN ReturnLogged(logActivityProject(w1, data.id, w.authUser,
                                                "project_created", reachable), data)
           ELSE Throw(w, "db")

updateProject(w, id, updates, reachable) ==
  IF ~w.supabase
  THEN LET projectIndex == FindIndex(w.demoProjects, id)
       IN  IF projectIndex = 0 THEN Throw(w, "Project not found in demo storage")
           ELSE LET list == [w.demoProjects EXCEPT ![projectIndex] = Merge(@, updates)]
                    w1   == [w EXCEPT !.demoProjects = list, !.lsProjects = list]
                IN  ReturnLogged(logActivityProject(w1, id, DemoUser, "project_updated", reachable),
                           list[projectIndex])
  ELSE IF w.authUser = NULL THEN Throw(w, "User not authenticated")
  ELSE LET rows == {p \in w.projects : p.id = id /\ ProjectPolicy(w.authUser, p)}
       IN  IF rows = {} THEN Throw(w, "db")
           ELSE LET old  == CHOOSE p \in rows : TRUE
                    data == Merge(old, updates)
                IN  IF ProjectPolicy(w.authUser, data) /\ ProjectChecks(data)
                    THEN LET w1 == [w EXCEPT !.projects = (@ \ {old}) \cup {data}]
                         IN  ReturnLogged(logActivityProject(w1, id, w.authUser,
                                                       "project_updated", reachable), data)
                    ELSE Throw(w, "db")

\* ON DELETE CASCADE of tasks.project_id, custom_fields.project_id and
\* activity_log.project_id
CascadeProject(w, gone) ==
  [w EXCEPT !.projects = {p \in @ : p.id \notin gone},
            !.tasks = {t \in @ : t.project_id \notin gone},
            !.custom_fields = {c \in @ : c.project_id \notin gone},
            !.activity_log = SelectSeq(ClearTaskRefs(@,
                                 {t.id : t \in {t \in w.tasks : t.project_id \in gone}}),
                               LAMBDA e : e.project_id \notin gone)]

deleteProject(w, id, reachable) ==
  IF ~w.supabase
  THEN LET list == SelectSeq(w.demoProjects, LAMBDA p : p.id # id)
       IN  IF Len(list) < Len(w.demoProjects)
           THEN LET w1 == [w EXCEPT !.demoProjects = list, !.lsProjects = list]
                IN  ReturnLogged(logActivityProject(w1, id, DemoUser, "project_deleted", reachable),
                           NULL)
           ELSE Return([w EXCEPT !.demoProjects = list], NULL)
  ELSE IF w.authUser = NULL THEN Throw(w, "User not authenticated")
  ELSE LET gone == {p.id : p \in {p \in w.projects : p.id = id /\ ProjectPolicy(w.authUser, p)}}
           w1   == CascadeProject(w, gone)
       IN  ReturnLogged(logActivityProject(w1, id, w.authUser, "project_deleted", reachable), NULL)

----------------------------------------------------------------------------
(* ProjectService of src/services/projectService.ts: one branch per value   *)
(* of VITE_BACKEND_TYPE (be)                                                 *)

\* every order in which the rows of a set can come back
RECURSIVE Orderings(_)
Orderings(rows) ==
  IF rows = {} THEN {<<>>}
  ELSE UNION {{<<r>> \o rest : rest \in Orderings(rows \ {r})} : r \in rows}

\* the result sets getUserProjects can return: SELECT * FROM projects, or
\* select('*') under the SELECT policy; neither query has an ORDER BY
getUserProjectsBackend(w, be) ==
  IF be = "sqlserver" THEN Orderings(w.projects)
  ELSE Orderings({p \in w.projects : ProjectPolicy(w.authUser, p)})

\* createProject: the sqlserver branch inserts name, description, status and
\* team_members only; the other branch asks supabase.auth for the user first
createProjectBackend(w, be, project) ==
  IF be = "sqlserver"
  THEN LET row == [id |-> w.nextId, status |-> project.status, created_by |-> NULL,
                   team_members |-> project.team_members, last_modified |-> w.clock]
       IN  Return([w EXCEPT !.projects = @ \cup {row}, !.nextId = @ + 1,
                            !.clock = @ + 1], row)
  ELSE IF w.authUser = NULL
       THEN Throw(w, "User must be authenticated to create a project.")
  ELSE LET row == [id |-> w.nextId, status |-> project.status, created_by |-> w.authUser,
                   team_members |-> project.team_members, last_modified |-> w.clock]
       IN  IF ProjectInsertPolicy(w.authUser, row) /\ ProjectChecks(row)
           THEN Return([w EXCEPT !.projects = @ \cup {row}, !.nextId = @ + 1,
                                 !.clock = @ + 1], row)
           ELSE Throw(w, "db")

----------------------------------------------------------------------------
(* The signup endpoint of backend/routes/auth.js (and backend/server.js)    *)

\* what can go wrong while the handler runs: nothing, sql.connect or
\* bcrypt.hash, the insert into dbo.users, the insert into dbo.profiles
\* (email.split included), transaction.commit
SignupFaults == {"none", "connect", "users", "profiles", "commit"}

\* email.split('@')[0]; an email is modelled as <<local part, domain>>
Username(email) == email[1]

\* a handler that runs its statements without a transaction: what was
\* inserted before a failure stays
signupNoTransaction(db, id, email, password, fault) ==
  LET withUser == [db EXCEPT !.users = @ \cup {[id |-> id, email |-> email]}]
      withBoth == [withUser EXCEPT !.profiles = @ \cup {[id |-> id, username |-> Username(email)]}]
  IN  IF email = <<>> \/ password = "" THEN [db |-> db, status |-> 400]
      ELSE IF fault = "connect" THEN [db |-> db, status |-> 500]
      ELSE IF \E u \in db.users : u.email = email THEN [db |-> db, status |-> 409]
      ELSE IF fault = "users" THEN [db |-> db, status |-> 500]
      ELSE IF fault = "profiles" THEN [db |-> withUser, status |-> 500]
      ELSE IF fault = "commit" THEN [db |-> withBoth, status |-> 500]
      ELSE [db |-> withBoth, status |-> 201]

\* router.post('/signup'): both inserts run in one transaction; the catch
\* rolls back and answers 409 for error 2627/2601 (the unique index on
\* dbo.users.email), the outer catch answers 500
signup(db, id, email, password, fault) ==
  LET withUser == [db EXCEPT !.users = @ \cup {[id |-> id, email |-> email]}]
      withBoth == [withUser EXCEPT !.profiles = @ \cup {[id |-> id, username |-> Username(email)]}]
  IN  IF email = <<>> \/ password = "" THEN [db |-> db, status |-> 400]
      ELSE IF fault = "connect" THEN [db |-> db, status |-> 500]
      ELSE IF \E u \in db.users : u.email = email THEN [db |-> db, status |-> 409]
      ELSE IF fault \in {"users", "profiles", "commit"} THEN [db |-> db, status |-> 500]
      ELSE [db |-> withBoth, status |-> 201]

----------------------------------------------------------------------------
(* Requests a client sends straight to the tables, gated by row-level       *)
(* security                                                                  *)

Tables   == {"projects", "tasks", "custom_fields", "activity_log"}
Commands == {"select", "insert", "update", "delete"}

\* policies whose UPDATE judges the existing row only (no WITH CHECK)
RowSecurityUsingOnly(w, uid, table, command, old, new) ==
  CASE table = "projects" /\ command \in {"select", "delete", "update"} ->
         ProjectPolicy(uid, old)
    [] table = "projects" /\ command = "insert" -> ProjectInsertPolicy(uid, new)
    [] table \in {"tasks", "custom_fields"} /\ command \in {"select", "delete", "update"} ->
         can_access_project(w, uid, old.project_id)
    [] table \in {"tasks", "custom_fields"} /\ command = "insert" ->
         can_access_project(w, uid, new.project_id)
    [] table = "activity_log" /\ command = "select" ->
         can_access_project(w, uid, old.project_id)
    [] table = "activity_log" /\ command = "insert" -> ActivityInsertPolicy(w, uid, new)
    [] OTHER -> FALSE

\* the policies of a table for a command: USING on the existing row (old),
\* WITH CHECK on the new row (new); a command without a policy is denied
RowSecurity(w, uid, table, command, old, new) ==
  CASE table = "projects" /\ command \in {"select", "delete"} -> ProjectPolicy(uid, old)
    [] table = "projects" /\ command = "insert" -> ProjectInsertPolicy(uid, new)
    [] table = "projects" /\ command = "update" ->
         ProjectPolicy(uid, old) /\ ProjectPolicy(uid, new)
    [] table \in {"tasks", "custom_fields"} /\ command \in {"select", "delete"} ->
         can_access_project(w, uid, old.project_id)
    [] table \in {"tasks", "custom_fields"} /\ command = "insert" ->
         can_access_project(w, uid, new.project_id)
    [] table \in {"tasks", "custom_fields"} /\ command = "update" ->
         can_access_project(w, uid, old.project_id)
           /\ can_access_project(w, uid, new.project_id)
    [] table = "activity_log" /\ command = "select" ->
         can_access_project(w, uid, old.project_id)
    [] table = "activity_log" /\ command = "insert" -> ActivityInsertPolicy(w, uid, new)
    [] OTHER -> FALSE

\* the rows of a table
TableRows(w, table) ==
  CASE table = "projects" -> w.projects
    [] table = "tasks" -> w.tasks
    [] table = "custom_fields" -> w.custom_fields
    [] table = "activity_log" -> Range(w.activity_log)

\* what the command does to the tables once it is let through
Applied(w, table, command, old, new) ==
  CASE command = "select" -> w
    [] table = "projects" /\ command = "insert" ->
         [w EXCEPT !.projects = @ \cup {new}, !.nextId = @ + 1]
    [] table = "projects" /\ command = "update" ->
         [w EXCEPT !.projects = (@ \ {old}) \cup {new}]
    [] table = "projects" /\ command = "delete" -> CascadeProject(w, {old.id})
    [] table = "tasks" /\ command = "insert" ->
         [w EXCEPT !.tasks = @ \cup {new}, !.nextId = @ + 1]
    [] table = "tasks" /\ command = "update" -> [w EXCEPT !.tasks = (@ \ {old}) \cup {new}]
    [] table = "tasks" /\ command = "delete" ->
         [w EXCEPT !.tasks = @ \ {old}, !.activity_log = ClearTaskRefs(@, {old.id})]
    [] table = "custom_fields" /\ command = "insert" ->
         [w EXCEPT !.custom_fields = @ \cup {new}, !.nextId = @ + 1]
    [] table = "custom_fields" /\ command = "update" ->
         [w EXCEPT !.custom_fields = (@ \ {old}) \cup {new}]
    [] table = "custom_fields" /\ command = "delete" ->
         [w EXCEPT !.custom_fields = @ \ {old}]
    [] table = "activity_log" /\ command = "insert" ->
         [w EXCEPT !.activity_log = Append(@, new)]
    [] table = "activity_log" /\ command = "update" ->
         [w EXCEPT !.activity_log = [i \in 1..Len(@) |-> IF @[i] = old THEN new ELSE @[i]]]
    [] table = "activity_log" /\ command = "delete" ->
         [w EXCEPT !.activity_log = SelectSeq(@, LAMBDA e : e # old)]

\* the constraints a new row has to meet
RowConstraints(w, table, new) ==
  CASE table = "projects" -> ProjectChecks(new)
    [] table = "tasks" -> /\ TaskChecks(new) /\ TaskForeignKeys(w, new)
                          /\ \E p \in w.projects : p.id = new.project_id
    [] table = "custom_fields" -> \E p \in w.projects : p.id = new.project_id
    [] table = "activity_log" -> ActivityForeignKeys(w, new)

\* supabase.from(table).select/insert/update/delete issued by the signed-in
\* client: the command takes effect on the row exactly when row-level security
\* lets it through (and, for a write, the constraints hold)
dbRequest(w, table, command, old, new) ==
  IF /\ RowSecurity(w, w.authUser, table, command, old, new)
     /\ command \in {"insert", "update"} => RowConstraints(w, table, new)
  THEN Return(Applied(w, table, command, old, new), NULL)
  ELSE Throw(w, "db")

\* an UPDATE that keeps the stored value of every column the row already has
updateRowNoOverwrite(w, uid, table, id, updates) ==
  LET rows == {r \in TableRows(w, table) : r.id = id}
  IN  IF rows = {} THEN Throw(w, "db")
      ELSE LET old == CHOOSE r \in rows : TRUE
               r   == dbRequest([w EXCEPT !.authUser = uid], table, "update",
                                old, Merge(updates, old))
           IN  [r EXCEPT !.w.authUser = w.authUser]

\* supabase.from(table).update(updates).eq('id', id).select().single() sent
\* by the client of principal uid: one statement, applied to the row as it
\* is stored when the statement runs
updateRow(w, uid, table, id, updates) ==
  LET rows == {r \in TableRows(w, table) : r.id = id}
  IN  IF rows = {} THEN Throw(w, "db")
      ELSE LET old == CHOOSE r \in rows : TRUE
               r   == dbRequest([w EXCEPT !.authUser = uid], table, "update",
                                old, Merge(old, updates))
           IN  [r EXCEPT !.w.authUser = w.authUser]

\* supabase.from('tasks').select('*').eq('id', id).single() sent by the client
\* of principal uid: the rows the SELECT policy shows
selectTask(w, uid, id) ==
  {t \in w.tasks : t.id = id /\ can_access_project(w, uid, t.project_id)}

\* the TaskUpdate updateTaskProgress builds from the task it has read
progressUpdates(taskToUpdate, progress) ==
  IF deriveStatus(progress, taskToUpdate.status) # taskToUpdate.status
  THEN [progress |-> progress, status |-> deriveStatus(progress, taskToUpdate.status)]
  ELSE [progress |-> progress]

----------------------------------------------------------------------------
(* State machine: one action per service call *)

NoCall == [op |-> "none", args |-> <<>>, ok |-> TRUE, err |-> "", ret |-> NULL,
           logged |-> "none", logLen |-> 0, prior |-> NULL, cycle |-> {}]

\* every task stored by the active backend
StoredTasks ==
  IF supabase THEN tasks
  ELSE UNION {Range(lsProjects[i].tasks) : i \in 1..Len(lsProjects)}

TaskById(id) == {t \in StoredTasks : t.id = id}

Finished(t) == t.status = "completed" \/ t.status = "done"

\* the pairs of R extended by one more edge of E, n times over
RECURSIVE Paths(_, _, _)
Paths(R, E, n) ==
  IF n = 0 THEN R
  ELSE Paths(R \cup {<<x[1][1], x[2][2]>> : x \in {y \in R \X E : y[1][2] = y[2][1]}},
             E, n - 1)

\* the ids, among the tasks ts, that lie on a dependency cycle made of
\* unfinished tasks only
CycleIds(ts) ==
  LET open    == {t \in ts : ~Finished(t)}
      openIds == {t.id : t \in open}
      edges   == UNION {{<<t.id, d>> : d \in Range(t.dependencies) \cap openIds} : t \in open}
  IN  IF edges = {} THEN {}
      ELSE {a \in openIds : <<a, a>> \in Paths(edges, edges, MaxDepIds)}

OpenCycleIds == CycleIds(StoredTasks)

\* the activity log of the active backend
ActivityLog == IF supabase THEN activity_log ELSE demoActivityLog

\* room left for one more log entry
LogRoom == Len(ActivityLog) < IF supabase THEN MaxDbLog ELSE MaxLog

\* the state after the call whose result is r; the arguments of a service call
\* that threw are not kept; logLen, prior and cycle remember, from the state
\* before the call, the length of the activity log, what the call is about to
\* find, and the tasks on a cycle of unfinished tasks
Step(op, args, prior, r) ==
  /\ lsProjects'      = r.w.lsProjects
  /\ lsActivityLog'   = r.w.lsActivityLog
  /\ demoProjects'    = r.w.demoProjects
  /\ demoActivityLog' = r.w.demoActivityLog
  /\ projects'        = r.w.projects
  /\ tasks'           = r.w.tasks
  /\ custom_fields'   = r.w.custom_fields
  /\ activity_log'    = r.w.activity_log
  /\ nextId'          = r.w.nextId
  /\ authUsers'       = r.w.authUsers
  /\ clock'           = r.w.clock
  /\ last' = [op |-> op, args |-> IF r.ok \/ op \in {"db", "importTasks"} THEN args ELSE <<>>,
              ok |-> r.ok,
              err |-> r.err, ret |-> r.ret, logged |-> r.logged,
              logLen |-> Len(ActivityLog), prior |-> prior, cycle |-> OpenCycleIds]
  /\ UNCHANGED <<auxVars, supabase, authUser, authVars>>

InitDemo ==
  /\ supabase = FALSE
  /\ lsProjects = <<>> /\ lsActivityLog = <<>>
  /\ demoProjects = <<>> /\ demoActivityLog = <<>>
  /\ authUser = NULL
  /\ projects = {} /\ tasks = {} /\ custom_fields = {} /\ activity_log = <<>>
  /\ nextId = DemoId + 1
  /\ authUsers = Users /\ clock = Now
  /\ backend = "supabase" /\ authBackend = initialBackend(backend)
  /\ user = NULL /\ authToken = NULL
  /\ dbo = [users |-> {}, profiles |-> {}] /\ inflight = <<>> /\ pageProject = <<>>
  /\ last = NoCall

\* demo mode: the application calls ProjectService.initializeDemoData on load
InitializeDemoData ==
  Step("initializeDemoData", <<>>, NULL, initializeDemoData(World))

\* demo mode: a page load runs the module initialisers again, which read the
\* in-memory lists back from localStorage
Reload ==
  /\ ~supabase
  /\ demoProjects' = lsProjects
  /\ demoActivityLog' = lsActivityLog
  /\ last' = [NoCall EXCEPT !.op = "reload"]
  /\ UNCHANGED <<auxVars, supabase, lsProjects, lsActivityLog, authUser, projects, tasks,
                 custom_fields, activity_log, nextId, authUsers, clock, authVars>>

CreateProject(menu, reach, maxId) ==
  \E project \in menu, reachable \in reach :
    /\ nextId <= maxId /\ LogRoom
    /\ Step("createProject", <<project>>, NULL, createProject(World, project, reachable))

UpdateProject(menu, reach, pids) ==
  \E id \in pids, updates \in menu, reachable \in reach :
    /\ LogRoom
    /\ Step("updateProject", <<id, updates>>, NULL, updateProject(World, id, updates, reachable))

\* the ids of the projects a delete of id finds: filter(p => p.id !== id) in
\* demo mode, delete().eq('id', id) under the DELETE policy on the backend
FindProject(w, id) ==
  IF ~w.supabase THEN {p.id : p \in {p \in Range(w.demoProjects) : p.id = id}}
  ELSE {p.id : p \in {p \in w.projects : p.id = id /\ ProjectPolicy(w.authUser, p)}}

DeleteProject(reach, pids) ==
  \E id \in pids, reachable \in reach :
    /\ LogRoom
    /\ Step("deleteProject", <<id>>, FindProject(World, id), deleteProject(World, id, reachable))

\* the ids a caller can list as dependencies: those handed out so far
KnownDeps(task) ==
  Has(task, "dependencies") => \A d \in Range(task.dependencies) : d < nextId

CreateTask(menu, reach, maxId) ==
  \E task \in menu, reachable \in reach :
    /\ nextId <= maxId /\ LogRoom /\ KnownDeps(task)
    /\ Step("createTask", <<task>>, NULL, createTask(World, task, reachable))

UpdateTask(menu, reach, ids, pids) ==
  \E id \in ids, projectId \in pids, updates \in menu, reachable \in reach :
    /\ LogRoom /\ KnownDeps(updates)
    /\ Step("updateTask", <<id, projectId, updates>>, NULL,
            updateTask(World, id, projectId, updates, reachable))

DeleteTask(reach, ids, pids) ==
  \E id \in ids, projectId \in pids, reachable \in reach :
    /\ LogRoom
    /\ Step("deleteTask", <<id, projectId>>, {t.id : t \in FindTask(World, id, projectId)},
            deleteTask(World, id, projectId, reachable))

UpdateTaskProgress(menu, reach, ids, pids) ==
  \E id \in ids, projectId \in pids, progress \in menu, reachable \in reach :
    /\ LogRoom
    /\ Step("updateTaskProgress", <<id, projectId, progress>>,
            {t.status : t \in FindTask(World, id, projectId)},
            updateTaskProgress(World, id, projectId, progress, reachable))

CanStartTask(ids) ==
  \E taskId \in ids :
    Step("canStartTask", <<taskId>>, NULL, canStartTask(World, taskId))

InitManaged ==
  /\ supabase = TRUE
  /\ lsProjects = <<>> /\ lsActivityLog = <<>>
  /\ demoProjects = <<>> /\ demoActivityLog = <<>>
  /\ authUser = NULL
  /\ projects = {} /\ tasks = {} /\ custom_fields = {} /\ activity_log = <<>>
  /\ nextId = 1
  /\ authUsers = Users /\ clock = Now
  /\ backend = "supabase" /\ authBackend = initialBackend(backend)
  /\ user = NULL /\ authToken = NULL
  /\ dbo = [users |-> {}, profiles |-> {}] /\ inflight = <<>> /\ pageProject = <<>>
  /\ last = NoCall

\* supabase.auth: a principal signs in; onAuthStateChange tells the provider
SignIn(users) ==
  \E u \in users :
    /\ supabase /\ authUser # u /\ u \in authUsers
    /\ authUser' = u
    /\ user' = IF authBackend = "supabase" THEN u ELSE user
    /\ last' = [NoCall EXCEPT !.op = "signIn"]
    /\ UNCHANGED <<auxVars, supabase, demoVars, dbVars, nextId, authUsers, clock,
                   backend, authBackend, authToken>>

\* supabase.auth: the principal signs out
SignOut ==
  /\ supabase /\ authUser # NULL
  /\ authUser' = NULL
  /\ user' = IF authBackend = "supabase" THEN NULL ELSE user
  /\ last' = [NoCall EXCEPT !.op = "signOut"]
  /\ UNCHANGED <<auxVars, supabase, demoVars, dbVars, nextId, authUsers, clock,
                 backend, authBackend, authToken>>

\* every list of at most n items
Batches(items, n) == UNION {[1..k -> items] : k \in 0..n}

\* TaskService.importTasks; prior remembers which projects the tasks could go
\* to, the task list of each project and all stored tasks before the call
ImportTasks(items, n, pids, reach, maxId) ==
  \E batch \in Batches(items, n), reachable \in reach :
    /\ nextId <= maxId /\ LogRoom
    /\ Step("importTasks", <<batch>>,
            [found |-> IF supabase
                       THEN {pid \in pids : can_access_project(World, authUser, pid)}
                       ELSE {pid \in pids : FindIndex(lsProjects, pid) # 0},
             tasks |-> [pid \in pids |-> getProjectTasks(World, pid)],
             all   |-> StoredTasks],
            importTasks(World, batch, reachable))

\* stands for the row of a call that has not read or written one
NoRow == [id |-> NullId]

\* the table a call writes to
CallTable(c) == IF c.op = "updateProject" THEN "projects" ELSE "tasks"

\* the number of writes the calls in flight have applied so far
WritesApplied == Cardinality({i \in 1..Len(inflight) : inflight[i].order > 0})

\* a step of a call in flight leaves everything but the tables and the
\* call's own record alone
CallFrame ==
  UNCHANGED <<dbo, pageProject, supabase, demoVars, authUser, authUsers, nextId, clock,
              authVars, last>>

\* ProjectService.updateProject is called by the client of principal caller:
\* supabase.auth.getUser() returns that principal; the update is yet to be sent
BeginUpdateProject(callers, pids, menu) ==
  \E caller \in callers, id \in pids, updates \in menu :
    /\ supabase /\ Len(inflight) < MaxCalls /\ caller \in authUsers
    /\ inflight' = Append(inflight,
                          [op |-> "updateProject", caller |-> caller, id |-> id,
                           updates |-> updates, pc |-> "update", read |-> NoRow,
                           before |-> NoRow, ok |-> TRUE, order |-> 0])
    /\ UNCHANGED dbVars /\ CallFrame

\* TaskService.updateTaskProgress is called by the client of principal caller
BeginUpdateTaskProgress(callers, ids, menu) ==
  \E caller \in callers, id \in ids, progress \in menu :
    /\ supabase /\ Len(inflight) < MaxCalls /\ caller \in authUsers
    /\ inflight' = Append(inflight,
                          [op |-> "updateTaskProgress", caller |-> caller, id |-> id,
                           updates |-> [progress |-> progress], pc |-> "select",
                           read |-> NoRow, before |-> NoRow, ok |-> TRUE, order |-> 0])
    /\ UNCHANGED dbVars /\ CallFrame

\* updateTaskProgress, step 1: the task is read and the updates are computed
CallSelect ==
  \E i \in 1..Len(inflight) :
    /\ inflight[i].pc = "select"
    /\ LET found == selectTask(World, inflight[i].caller, inflight[i].id)
       IN  inflight' =
             [inflight EXCEPT ![i] =
                IF found = {} THEN [@ EXCEPT !.pc = "done", !.ok = FALSE]
                ELSE [@ EXCEPT !.pc = "update", !.read = CHOOSE t \in found : TRUE,
                               !.updates = progressUpdates(CHOOSE t \in found : TRUE,
                                                           @.progress)]]
    /\ UNCHANGED dbVars /\ CallFrame

\* the update statement of updateProject or updateTask reaches the database;
\* before remembers the row it was applied to
CallUpdate ==
  \E i \in 1..Len(inflight) :
    /\ inflight[i].pc = "update"
    /\ LET c == inflight[i]
           r == updateRow(World, c.caller, CallTable(c), c.id, c.updates)
           old == {x \in TableRows(World, CallTable(c)) : x.id = c.id}
       IN  /\ projects' = r.w.projects
           /\ tasks' = r.w.tasks
           /\ inflight' = [inflight EXCEPT ![i] =
                             [@ EXCEPT !.pc = IF r.ok THEN "log" ELSE "done",
                                       !.ok = r.ok,
                                       !.before = IF old = {} THEN NoRow
                                                  ELSE CHOOSE x \in old : TRUE,
                                       !.order = WritesApplied + 1]]
    /\ UNCHANGED <<custom_fields, activity_log>> /\ CallFrame

\* logActivity of the call, then the call returns
CallLog ==
  \E i \in 1..Len(inflight) :
    /\ inflight[i].pc = "log"
    /\ LET c == inflight[i]
           w == [World EXCEPT !.authUser = c.caller]
           pid == IF c.op = "updateProject" THEN c.id ELSE Merge(c.before, c.updates).project_id
           row == [project_id |-> pid,
                   task_id |-> IF c.op = "updateProject" THEN NullId ELSE c.id,
                   user_id |-> c.caller,
                   action |-> IF c.op = "updateProject" THEN "project_updated"
                              ELSE "task_updated"]
       IN  activity_log' = InsertActivity(w, row, TRUE).w.activity_log
    /\ inflight' = [inflight EXCEPT ![i].pc = "done"]
    /\ UNCHANGED <<projects, tasks, custom_fields>> /\ CallFrame

\* a client posts to /api/auth/signup; prior remembers the tables before
Signup(emails, passwords, faults, maxId) ==
  \E email \in emails, password \in passwords, fault \in faults :
    /\ nextId <= maxId
    /\ dbo' = signup(dbo, nextId, email, password, fault).db
    /\ nextId' = IF signup(dbo, nextId, email, password, fault).status = 201
                 THEN nextId + 1 ELSE nextId
    /\ last' = [NoCall EXCEPT !.op = "signup", !.args = <<email, password, fault>>,
                              !.ok = signup(dbo, nextId, email, password, fault).status = 201,
                              !.ret = signup(dbo, nextId, email, password, fault).status,
                              !.prior = dbo]
    /\ UNCHANGED <<inflight, pageProject, supabase, demoVars, dbVars, authUser, authUsers,
                   clock, authVars>>

\* an administrator deletes a user of the managed backend
DeleteUser(principals) ==
  \E u \in principals :
    /\ supabase /\ u \in authUsers
    /\ authUsers' = deleteUser(World, u).authUsers
    /\ authUser' = deleteUser(World, u).authUser
    /\ projects' = deleteUser(World, u).projects
    /\ tasks' = deleteUser(World, u).tasks
    /\ custom_fields' = deleteUser(World, u).custom_fields
    /\ activity_log' = deleteUser(World, u).activity_log
    /\ user' = IF authBackend = "supabase" /\ authUser = u THEN NULL ELSE user
    /\ last' = [NoCall EXCEPT !.op = "deleteUser", !.args = <<u>>]
    /\ UNCHANGED <<auxVars, supabase, demoVars, nextId, clock, backend, authBackend, authToken>>

\* the state after a step of the authentication provider
AuthStep(op, newBackend, newUser, newToken, newSession) ==
  /\ authBackend' = newBackend
  /\ user' = newUser
  /\ authToken' = newToken
  /\ authUser' = newSession
  /\ last' = [NoCall EXCEPT !.op = op]
  /\ UNCHANGED <<auxVars, supabase, demoVars, dbVars, nextId, authUsers, clock, backend>>

\* AuthProvider.signIn: the sqlserver branch stores the token and sets the
\* user; the supabase branch signs in with supabase.auth, whose
\* onAuthStateChange subscription (held while authBackend is supabase) sets it
AuthSignIn(principals) ==
  \E u \in principals :
    /\ u \in authUsers
    /\ IF authBackend = "sqlserver"
       THEN AuthStep("authSignIn", authBackend, u, u, authUser)
       ELSE AuthStep("authSignIn", authBackend, u, authToken, u)

\* AuthProvider.signOut
AuthSignOut ==
  /\ user # NULL
  /\ IF authBackend = "sqlserver"
     THEN AuthStep("authSignOut", authBackend, NULL, NULL, authUser)
     ELSE AuthStep("authSignOut", authBackend, NULL, authToken, NULL)

\* AuthForms: the backend switcher calls setAuthBackend(value); the provider's
\* effect runs again and reads the user of the backend now selected
SetAuthBackend ==
  \E value \in {"supabase", "sqlserver"} :
    /\ value # authBackend
    /\ AuthStep("setAuthBackend", value,
                IF value = "sqlserver" THEN authToken ELSE authUser, authToken, authUser)

\* projectService.ts: getUserProjects, in one of the orders the query can give
GetUserProjectsBackend ==
  \E result \in getUserProjectsBackend(World, backend) :
    Step("getUserProjects", <<>>, NULL, Return(World, result))

\* projectService.ts: createProject
CreateProjectBackend(menu, maxId) ==
  \E project \in menu :
    /\ nextId <= maxId
    /\ Step("createProject", <<project>>, NULL, createProjectBackend(World, backend, project))

\* the application starts with the backend type its configuration names
InitRaw ==
  /\ supabase = TRUE
  /\ lsProjects = <<>> /\ lsActivityLog = <<>>
  /\ demoProjects = <<>> /\ demoActivityLog = <<>>
  /\ authUser = NULL
  /\ projects = {} /\ tasks = {} /\ custom_fields = {} /\ activity_log = <<>>
  /\ nextId = 1
  /\ authUsers = Users /\ clock = Now
  /\ backend \in {"sqlserver", "supabase"} /\ authBackend = initialBackend(backend)
  /\ user = NULL /\ authToken = NULL
  /\ dbo = [users |-> {}, profiles |-> {}] /\ inflight = <<>> /\ pageProject = <<>>
  /\ last = NoCall

\* the rows a request can name: for select, update and delete a stored row and
\* (for update) its new image; for insert a new row
RequestRows(table, command, inserts, updates) ==
  IF command = "insert" THEN {<<new, new>> : new \in inserts[table]}
  ELSE IF command = "update"
       THEN UNION {{<<old, Merge(old, u)>> : u \in updates[table]} :
                     old \in TableRows(World, table)}
       ELSE {<<old, old>> : old \in TableRows(World, table)}

\* the signed-in client (or an anonymous one) sends a request to a table; prior
\* remembers the projects table the request was judged against
DbRequest(tables, commands, inserts, updates, maxId) ==
  \E table \in tables, command \in commands :
    \E rows \in RequestRows(table, command, inserts, updates) :
      /\ supabase
      /\ command = "insert" => IF table = "activity_log" THEN LogRoom ELSE nextId <= maxId
      /\ Step("db", <<table, command, rows[1], rows[2]>>, projects,
              dbRequest(World, table, command, rows[1], rows[2]))

----------------------------------------------------------------------------
(* Demo mode, progress and status: the inputs the environment draws from *)

ProgressMenu == {-1, 0, 1, 50, 99, 100, 101}

ProgressIds  == 1..MaxTaskIds
ProgressPids == {DemoId, DemoId + 1}

ProgressTaskMenu ==
  {[project_id |-> p] : p \in ProgressPids}
    \cup {[project_id |-> DemoId, status |-> s] : s \in Statuses}
    \cup {[project_id |-> DemoId, progress |-> g] : g \in {50, 101}}

ProgressTaskUpdates == {[status |-> "on-hold"], [progress |-> 101]}

NextProgress ==
  \/ InitializeDemoData
  \/ CreateTask(ProgressTaskMenu, {TRUE}, MaxTaskIds)
  \/ UpdateTask(ProgressTaskUpdates, {TRUE}, ProgressIds, ProgressPids)
  \/ DeleteTask({TRUE}, ProgressIds, ProgressPids)
  \/ UpdateTaskProgress(ProgressMenu, {TRUE}, ProgressIds, ProgressPids)

SpecProgress == InitDemo /\ [][NextProgress]_vars

----------------------------------------------------------------------------
(* Demo mode, dates: the inputs the environment draws from *)

DateIds == 1..MaxTaskIds

DateTaskMenu ==
  {[project_id |-> DemoId]}
    \cup {[project_id |-> DemoId, start_date |-> a, end_date |-> b] :
            a \in {Now, Now + 1}, b \in {Now, Now + 1}}
    \cup {[project_id |-> DemoId, start_date |-> Now + 1]}

DateTaskUpdates ==
  {[end_date |-> d] : d \in {Now - 1, Now + 1}}
    \cup {[start_date |-> Now + 1, end_date |-> Now + 1]}

NextDates ==
  \/ InitializeDemoData
  \/ CreateTask(DateTaskMenu, {TRUE}, MaxTaskIds)
  \/ UpdateTask(DateTaskUpdates, {TRUE}, DateIds, {DemoId})
  \/ DeleteTask({TRUE}, DateIds, {DemoId})

SpecDates == InitDemo /\ [][NextDates]_vars

----------------------------------------------------------------------------
(* Demo mode, dependencies: the inputs the environment draws from *)

DepIds == (DemoId + 1)..MaxDepIds

\* dependency lists: none or one task
DepMenu == {<<>>} \cup {<<i>> : i \in DepIds}

DepTaskMenu == {[project_id |-> DemoId, dependencies |-> d] : d \in DepMenu}

DepTaskUpdates == {[dependencies |-> d] : d \in DepMenu}

NextDeps ==
  \/ InitializeDemoData
  \/ CreateTask(DepTaskMenu, {TRUE}, MaxDepIds)
  \/ UpdateTask(DepTaskUpdates, {TRUE}, DepIds, {DemoId})
  \/ DeleteTask({TRUE}, DepIds, {DemoId})
  \/ UpdateTaskProgress({100}, {TRUE}, DepIds, {DemoId})
  \/ CanStartTask(DepIds)

SpecDeps == InitDemo /\ [][NextDeps]_vars

----------------------------------------------------------------------------
(* Demo mode, projects and their activity log: the inputs *)

DemoIds == 1..MaxDemoIds

DemoProjectMenu == {[status |-> "active", team_members |-> {}]}

DemoProjectUpdates == {[status |-> "completed"]}

DemoTaskMenu == {[project_id |-> p] : p \in DemoIds}

DemoTaskUpdates == {[status |-> "on-hold"]}

NextDemo ==
  \/ InitializeDemoData
  \/ Reload
  \/ CreateProject(DemoProjectMenu, {TRUE}, MaxDemoIds)
  \/ UpdateProject(DemoProjectUpdates, {TRUE}, DemoIds)
  \/ DeleteProject({TRUE}, DemoIds)
  \/ CreateTask(DemoTaskMenu, {TRUE}, MaxDemoIds)
  \/ UpdateTask(DemoTaskUpdates, {TRUE}, DemoIds, DemoIds)
  \/ DeleteTask({TRUE}, DemoIds, DemoIds)

SpecDemo == InitDemo /\ [][NextDemo]_vars

----------------------------------------------------------------------------
(* Managed backend, services: the inputs *)

TeamMenu == {{}, {"u2"}}

DbIds == 1..MaxDbIds

DbProjectMenu == {[status |-> "active", team_members |-> t] : t \in TeamMenu}

DbProjectUpdates == {[team_members |-> t] : t \in TeamMenu}

DbTaskMenu == {[project_id |-> p] : p \in DbIds}

DbTaskUpdates == {[status |-> "completed"], [progress |-> 101]}

\* activity rows a client may try to insert on its own
ActivityRows(pids) ==
  {[project_id |-> p, task_id |-> NullId, user_id |-> u, action |-> "note"] :
     p \in pids, u \in Users}

NoRows == [table \in Tables |-> {}]

\* whether the activity-log insert of a service call reaches the database
Reach == {TRUE, FALSE}

NextManaged ==
  \/ SignIn(Users)
  \/ SignOut
  \/ CreateProject(DbProjectMenu, Reach, MaxDbIds)
  \/ UpdateProject(DbProjectUpdates, Reach, DbIds)
  \/ DeleteProject(Reach, DbIds)
  \/ CreateTask(DbTaskMenu, Reach, MaxDbIds)
  \/ UpdateTask(DbTaskUpdates, Reach, DbIds, DbIds)
  \/ DeleteTask(Reach, DbIds, DbIds)
  \/ DbRequest({"activity_log"}, {"insert"},
               [NoRows EXCEPT !["activity_log"] = ActivityRows(DbIds)], NoRows, MaxDbIds)

SpecManaged == InitManaged /\ [][NextManaged]_vars

----------------------------------------------------------------------------
(* Managed backend, row-level security: the inputs *)

RlsIds == 1..MaxRlsIds

\* the rows a client may try to insert
RlsInserts ==
  [table \in Tables |->
     CASE table = "projects" -> {}
       [] table = "tasks" -> {TaskDataSupabase(nextId, [project_id |-> p]) : p \in RlsIds}
       [] table = "custom_fields" ->
            {[id |-> nextId, project_id |-> p, required |-> FALSE] : p \in RlsIds}
       [] table = "activity_log" -> ActivityRows(RlsIds)]

\* the changes a client may try to make to a row
RlsUpdates ==
  [table \in Tables |->
     CASE table = "projects" -> {[team_members |-> t] : t \in TeamMenu}
       [] table = "tasks" -> {[status |-> "on-hold"]}
       [] table = "custom_fields" -> {[required |-> TRUE]}
       [] table = "activity_log" -> {[action |-> "edited"]}]

NextRls ==
  \/ SignIn(Users)
  \/ SignOut
  \/ CreateProject(DbProjectMenu, {TRUE}, MaxRlsIds)
  \/ DbRequest(Tables, Commands, RlsInserts, RlsUpdates, MaxRlsIds + 1)

SpecRls == InitManaged /\ [][NextRls]_vars

----------------------------------------------------------------------------
(* Bulk import: the inputs *)

ImportPids == {DemoId, DemoId + 1}

\* items for a project, and one without project_id
ImportItems == {[project_id |-> p] : p \in ImportPids} \cup {[status |-> "on-hold"]}

NextImport ==
  \/ InitializeDemoData
  \/ CreateProject(DemoProjectMenu, {TRUE}, DemoId + 1)
  \/ ImportTasks(ImportItems, MaxBatch, ImportPids, {TRUE}, MaxImportIds)

SpecImport == InitDemo /\ [][NextImport]_vars

\* items for a project, one the CHECK on progress refuses, one without project_id
DbImportItems ==
  {[project_id |-> p] : p \in ImportPids}
    \cup {[project_id |-> DemoId, progress |-> 101], [status |-> "on-hold"]}

NextImportDb ==
  \/ SignIn(Users)
  \/ CreateProject(DbProjectMenu, Reach, DemoId + 1)
  \/ ImportTasks(DbImportItems, MaxDbBatch, ImportPids, Reach, DemoId + 1)

SpecImportDb == InitManaged /\ [][NextImportDb]_vars

----------------------------------------------------------------------------
(* Overlapping calls on the managed backend: the inputs *)

CallIds == 1..MaxCallIds

\* projects with the other principal on the team
CallProjectMenu == {[status |-> "active", team_members |-> {"u2"}]}

CallProjectUpdates ==
  {[status |-> "completed"], [status |-> "archived"], [team_members |-> {}],
   [status |-> "archived", team_members |-> {"u1", "u2"}]}

NextCallsProject ==
  \/ SignIn({"u1"})
  \/ CreateProject(CallProjectMenu, {TRUE}, 1)
  \/ BeginUpdateProject(Users, {1}, CallProjectUpdates)
  \/ CallUpdate
  \/ CallLog

SpecCallsProject == InitManaged /\ [][NextCallsProject]_vars

----------------------------------------------------------------------------
(* Signup endpoint: the inputs *)

\* request bodies: two addresses with the same local part, a third one, and
\* a body without email
SignupEmails == {<<"ann", "x.io">>, <<"ann", "y.io">>, <<"bob", "x.io">>, <<>>}

SignupPasswords == {"secret", ""}

NextSignup == Signup(SignupEmails, SignupPasswords, SignupFaults, MaxSignupIds)

SpecSignup == InitRaw /\ [][NextSignup]_vars

----------------------------------------------------------------------------
(* Managed backend, deleting users: the inputs *)

UserIds == 1..MaxUserIds

UserTaskMenu ==
  {[project_id |-> p] : p \in UserIds}
    \cup {[project_id |-> p, assignee |-> u] : p \in UserIds, u \in Users}

NextUsers ==
  \/ SignIn(Users)
  \/ SignOut
  \/ CreateProject(DbProjectMenu, {TRUE}, MaxUserIds)
  \/ CreateTask(UserTaskMenu, {TRUE}, MaxUserIds)
  \/ DeleteUser(Users)

SpecUsers == InitManaged /\ [][NextUsers]_vars

----------------------------------------------------------------------------
(* Raw-SQL ProjectService and the authentication provider: the inputs *)

RawProjectMenu == {[status |-> "active", team_members |-> t] : t \in TeamMenu}

NextRaw ==
  \/ AuthSignIn(Users)
  \/ AuthSignOut
  \/ SetAuthBackend
  \/ GetUserProjectsBackend
  \/ CreateProjectBackend(RawProjectMenu, MaxSqlIds)

SpecRaw == InitRaw /\ [][NextRaw]_vars

----------------------------------------------------------------------------
(* Claims about progress and status *)

\* the derivation table of the specification, section 4.4
StatusTable(p, s) ==
  CASE p <= 0 -> "not-started"
    [] p >= 100 -> "completed"
    [] p > 0 /\ p < 100 /\ s \in {"not-started", "completed"} -> "in-progress"
    [] OTHER -> s

\* C1: updateTaskProgress(id, projectId, p) on an existing task with prior
\* status s succeeds and leaves the task stored with progress p and the status
\* the derivation table gives for (p, s), for every prior status and every p
\* drawn (boundary values 0, 1, 99, 100 included).
C1_ProgressDerivation ==
  last.op = "updateTaskProgress" =>
    /\ last.prior # {} => last.ok
    /\ last.ok =>
         /\ TaskById(last.args[1]) # {}
         /\ \A t \in TaskById(last.args[1]) :
              /\ t.progress = last.args[3]
              /\ \A s \in last.prior : t.status = StatusTable(last.args[3], s)

\* C1 witness: a task on hold received progress 50 and is still on hold
C1_Witness ==
  /\ last.op = "updateTaskProgress" /\ last.ok
  /\ last.prior = {"on-hold"} /\ last.args[3] = 50
  /\ \E t \in TaskById(last.args[1]) : t.status = "on-hold" /\ t.progress = 50

\* C5: every stored task has 0 <= progress <= 100.
C5_ProgressInRange ==
  \A t \in StoredTasks : t.progress >= 0 /\ t.progress <= 100

\* C4: every stored task satisfies end_date >= start_date.
C4_EndAfterStart ==
  \A t \in StoredTasks : t.end_date >= t.start_date

----------------------------------------------------------------------------
(* Claims about dependency gating *)

\* what canStartTask answers for taskId in the current state
CanStart(taskId) == canStartTask(World, taskId).ret

\* C2: canStartTask(t) on a stored task t returns true if and only if every id
\* in t's dependencies resolves to a stored task whose status is completed or
\* done (so false when a listed id resolves to no task).
C2_CanStartIffAllResolved ==
  (last.op = "canStartTask" /\ last.ok) =>
    \A t \in TaskById(last.args[1]) :
      last.ret <=> \A d \in Range(t.dependencies) :
                     \E dep \in StoredTasks : dep.id = d /\ Finished(dep)

\* the call deleted a task of the cycle or replaced its dependency list
CycleBroken ==
  /\ last.ok /\ last.args # <<>>
  /\ \/ last.op = "deleteTask" /\ last.args[1] \in last.cycle
     \/ last.op = "updateTask" /\ last.args[1] \in last.cycle
          /\ Has(last.args[3], "dependencies")

\* the call was a successful update, progress update or delete of a task of the cycle
TargetsCycle ==
  /\ last.op \in {"updateTask", "updateTaskProgress", "deleteTask"}
  /\ last.ok
  /\ last.args[1] \in last.cycle

\* C3 as claimed: once unfinished tasks form a dependency cycle, canStartTask
\* stays false for every task of the cycle after any service call that leaves
\* the cycle's tasks and dependency lists in place.
C3_CycleBlocksForever ==
  (last.cycle # {} /\ ~CycleBroken) => \A a \in last.cycle : ~CanStart(a)

\* C3 amended: canStartTask stays false for every task of a cycle of unfinished
\* tasks, and the cycle stays, across createTask and across updateTask,
\* updateTaskProgress and deleteTask calls on tasks outside the cycle.
C3_CycleBlockedByOthers ==
  (last.cycle # {} /\ ~TargetsCycle) =>
    /\ last.cycle \subseteq OpenCycleIds
    /\ \A a \in last.cycle : ~CanStart(a)

\* C3 witness: a task outside a cycle of two unfinished tasks was just
\* completed, and the tasks of the cycle still cannot start
C3_Witness ==
  /\ last.op = "updateTaskProgress" /\ last.ok
  /\ last.args[1] \notin last.cycle
  /\ Cardinality(last.cycle) >= 2
  /\ \A a \in last.cycle : ~CanStart(a)

----------------------------------------------------------------------------
(* Claims about the activity log *)

MutatingOps == {"createProject", "updateProject", "deleteProject",
                "createTask", "updateTask", "deleteTask"}

\* the last call was a mutating service call that succeeded and had something
\* to mutate (a delete that found nothing also returns normally)
Mutated ==
  /\ last.op \in MutatingOps /\ last.ok
  /\ last.op \in {"deleteProject", "deleteTask"} => last.prior # {}

ActionName ==
  [op \in MutatingOps |->
     CASE op = "createProject" -> "project_created"
       [] op = "updateProject" -> "project_updated"
       [] op = "deleteProject" -> "project_deleted"
       [] op = "createTask" -> "task_created"
       [] op = "updateTask" -> "task_updated"
       [] op = "deleteTask" -> "task_deleted"]

\* the project the last (successful) mutating call was about
AffectedProject ==
  CASE last.op = "createProject" -> last.ret.id
    [] last.op \in {"updateProject", "deleteProject"} -> last.args[1]
    [] last.op \in {"createTask", "updateTask"} -> last.ret.project_id
    [] last.op = "deleteTask" -> last.args[2]

\* the principal calls are made as
Principal == IF supabase THEN authUser ELSE DemoUser

\* the entry written last: unshift in demo mode, insertion order on the backend
NewestEntry == IF supabase THEN activity_log[Len(activity_log)] ELSE demoActivityLog[1]

\* C6: each successful mutating service call increases the number of activity
\* log entries by exactly one, the new entry naming the affected project, the
\* action and the acting principal; a failed call adds none.
C6_OneEntryPerCall ==
  last.op \in MutatingOps =>
    /\ Mutated =>
         /\ Len(ActivityLog) = last.logLen + 1
         /\ NewestEntry.project_id = AffectedProject
         /\ NewestEntry.action = ActionName[last.op]
         /\ NewestEntry.user_id = Principal
    /\ ~last.ok => Len(ActivityLog) = last.logLen

\* the primary mutation of the last call is in the store
Persisted ==
  CASE last.op \in {"createProject", "updateProject"} ->
         IF supabase THEN last.ret \in projects ELSE last.ret \in Range(demoProjects)
    [] last.op \in {"createTask", "updateTask"} -> last.ret \in StoredTasks
    [] last.op = "deleteProject" ->
         \A id \in last.prior :
           IF supabase THEN \A p \in projects : p.id # id
           ELSE \A p \in Range(demoProjects) : p.id # id
    [] last.op = "deleteTask" -> \A id \in last.prior : TaskById(id) = {}

\* C7: when the activity-log write of a mutating service call fails, the call
\* still returns normally and its primary mutation is in the store.
C7_LogFailureIgnored ==
  (last.op \in MutatingOps /\ last.logged = "error") => last.ok /\ Persisted

\* C7 witness: createTask returned the new task, the task is stored, and its
\* activity-log write failed, leaving the log as it was
C7_Witness ==
  /\ last.op = "createTask" /\ last.ok /\ last.logged = "error"
  /\ last.ret \in tasks
  /\ Len(activity_log) = last.logLen

\* the entries of log that are not removed by the cascade of the project
\* delete the step makes, if it makes one
Surviving(log, op, gone) ==
  IF op = "deleteProject" THEN SelectSeq(log, LAMBDA e : e.project_id \notin gone) ELSE log

\* the entries of the log after the step, without the k newest
Older(log, k) ==
  IF supabase THEN SubSeq(log, 1, Len(log) - k) ELSE SubSeq(log, k + 1, Len(log))

\* C8: the activity log is append-only: a step leaves every entry in place and
\* unmodified, except the entries removed by the cascade of deleting their project.
C8_AppendOnly ==
  [][\E k \in {0, 1} :
       /\ Len(ActivityLog') >= k
       /\ Older(ActivityLog', k) \in {ActivityLog, Surviving(ActivityLog, last'.op, last'.prior)}]_vars

\* principal P is the owner of project X or is in its team_members
Member(P, X) == P # NULL /\ (P = X.created_by \/ P \in X.team_members)

\* principal P is the owner or a team member of the project pid of the table projs
Access(P, pid, projs) == \E X \in projs : X.id = pid /\ Member(P, X)

\* the last step was a client's own insert into activity_log
DirectInsert(l) == l.op = "db" /\ l.args[1] = "activity_log" /\ l.args[2] = "insert"

\* C9: every activity row that gets inserted names, as user_id, the principal
\* signed in when the call was made, and a project that principal can access;
\* an insert naming another principal, or a project the caller cannot access,
\* is rejected and adds no row.
C9_InsertedAsSelf ==
  [][/\ Len(activity_log') > Len(activity_log) =>
          /\ activity_log'[Len(activity_log')].user_id = authUser
          /\ Access(authUser, activity_log'[Len(activity_log')].project_id, projects')
     /\ (DirectInsert(last') /\ (\/ last'.args[4].user_id # authUser
                                  \/ ~Access(authUser, last'.args[4].project_id, projects))) =>
          ~last'.ok /\ activity_log' = activity_log]_vars

\* C9 witness: a signed-in client with access to the project tried to insert
\* an activity row naming another principal; it was rejected and no row added
C9_Witness ==
  /\ DirectInsert(last) /\ ~last.ok
  /\ authUser # NULL /\ last.args[4].user_id # authUser
  /\ Access(authUser, last.args[4].project_id, projects)
  /\ Len(activity_log) = last.logLen

----------------------------------------------------------------------------
(* Claims about row-level security *)

\* the project a row belongs to
ProjectOf(table, row) == IF table = "projects" THEN row.id ELSE row.project_id

\* the last request, by the signed-in principal, was about a row of a project
\* that principal owns or is a team member of (judged before the request)
RequestByMember ==
  Access(authUser, ProjectOf(last.args[1], last.args[3]), last.prior)

\* the new image of the row stays in a project the principal owns or is a
\* team member of
StaysWithMember ==
  IF last.args[1] = "projects" THEN Member(authUser, last.args[4])
  ELSE Access(authUser, last.args[4].project_id, last.prior)

\* the request is one a principal entitled to the project could make: an
\* update keeps the row within the principal's projects, and an activity row
\* to insert names the principal itself
Plain ==
  /\ last.args[2] = "update" => StaysWithMember
  /\ (last.args[1] = "activity_log" /\ last.args[2] = "insert") =>
       last.args[4].user_id = authUser

\* C10 as claimed: a request to read, update or delete a project, or to read,
\* insert, update or delete a task, custom field or activity row of it, is let
\* through if and only if the principal is the project's owner or in its
\* team_members.
C10_AccessIffMember ==
  (last.op = "db" /\ Plain) => (last.ok <=> RequestByMember)

\* C10 amended: a request on a project, task or custom field of project X is
\* let through if and only if the principal is X's owner or in X's
\* team_members and, for an update, still is for the row's new image; an
\* activity row can be read on the same condition, inserted only if it also
\* names the principal as user_id, and never updated or deleted.
C10_AccessMatrix ==
  last.op = "db" =>
    (last.ok <=>
       /\ RequestByMember
       /\ Plain
       /\ last.args[1] = "activity_log" => last.args[2] \notin {"update", "delete"})

\* C10 witness: a team member who is not the owner deleted a task of the project
C10_Witness ==
  /\ last.op = "db" /\ last.ok
  /\ last.args[1] = "tasks" /\ last.args[2] = "delete"
  /\ last.args[3] \notin tasks
  /\ \E X \in last.prior : /\ X.id = last.args[3].project_id
                            /\ X.created_by # authUser
                            /\ authUser \in X.team_members

----------------------------------------------------------------------------
(* Claims about the raw-SQL variant and the choice of backend *)

\* the principal the application is used by: the provider's user
Caller == user

\* C11: in the raw-SQL variant getUserProjects returns only projects whose
\* owner or team_members include the caller, and createProject is refused for
\* an unauthenticated caller.
C11_RawSqlChecksAccess ==
  (backend = "sqlserver") =>
    /\ (last.op = "getUserProjects") =>
         \A i \in 1..Len(last.ret) : Member(Caller, last.ret[i])
    /\ (last.op = "createProject" /\ Caller = NULL) => ~last.ok

\* the principal authenticated with the backend the data services use
Authenticated == IF backend = "sqlserver" THEN authToken ELSE authUser

\* C12: after a successful createProject by an authenticated principal P the
\* stored project's owner (created_by) is P, so P has access to it at once.
C12_CreatorOwns ==
  (last.op = "createProject" /\ last.ok /\ Authenticated # NULL) =>
    \E p \in projects :
      /\ p.id = last.ret.id
      /\ p.created_by = Authenticated
      /\ Member(Authenticated, p)

----------------------------------------------------------------------------
(* Claims about updates under row-level security *)

\* the last request was an update sent by a client
DirectUpdate == last.op = "db" /\ last.args[2] = "update"

\* the update is a team member, not the owner, taking themselves out of the
\* project's team_members
SelfRemoval ==
  /\ DirectUpdate /\ last.args[1] = "projects"
  /\ authUser # NULL
  /\ authUser # last.args[3].created_by
  /\ authUser \in last.args[3].team_members
  /\ authUser \notin last.args[4].team_members

\* C13 as claimed: an update is applied only if the principal passes the
\* access predicate on the row before and after the update, and a team member
\* who is not the owner can update team_members to remove themselves.
C13_MemberCanLeave ==
  /\ (DirectUpdate /\ last.ok) => (RequestByMember /\ StaysWithMember)
  /\ SelfRemoval => last.ok

\* C13 amended: an update is applied only if the principal passes the access
\* predicate on the row before and after the update, otherwise the row stays
\* as it was; so a team member who is not the owner cannot take themselves out
\* of team_members: that update is rejected.
C13_UpdateNeedsBothImages ==
  DirectUpdate =>
    /\ last.ok => /\ RequestByMember /\ StaysWithMember
                  /\ last.args[4] \in TableRows(World, last.args[1])
    /\ ~(RequestByMember /\ StaysWithMember) =>
         ~last.ok /\ last.args[3] \in TableRows(World, last.args[1])
    /\ SelfRemoval => ~last.ok

\* C13 witness: a team member who is not the owner tried to take themselves
\* out of team_members; the update was rejected and the row is as before
C13_Witness ==
  /\ SelfRemoval /\ RequestByMember /\ ~last.ok
  /\ last.args[3] \in projects /\ last.args[4] \notin projects

----------------------------------------------------------------------------
(* Claims about deleting a principal *)

\* the row as it is once the reference to user u in field f is cleared
Cleared(row, f, u) == IF row[f] = u THEN [row EXCEPT ![f] = NULL] ELSE row

\* C14: deleting a principal removes no project, task or activity row: every
\* project it owned stays with created_by cleared, every task assigned to it
\* stays with assignee cleared, every activity row it wrote stays with user_id
\* cleared, every other row is untouched, and the three counts are unchanged.
C14_UserDeleteKeepsRows ==
  [][last'.op = "deleteUser" =>
       /\ projects' = {Cleared(p, "created_by", last'.args[1]) : p \in projects}
       /\ tasks' = {Cleared(t, "assignee", last'.args[1]) : t \in tasks}
       /\ Len(activity_log') = Len(activity_log)
       /\ \A i \in 1..Len(activity_log) :
            activity_log'[i] = Cleared(activity_log[i], "user_id", last'.args[1])
       /\ Cardinality(projects') = Cardinality(projects)
       /\ Cardinality(tasks') = Cardinality(tasks)
       /\ custom_fields' = custom_fields]_vars

\* C14 witness: a user who owned a project, was assigned a task and wrote an
\* activity row has been deleted; the rows are there with the references cleared
C14_Witness ==
  /\ last.op = "deleteUser" /\ last.args[1] \notin authUsers
  /\ \E p \in projects : p.created_by = NULL
  /\ \E t \in tasks : t.assignee = NULL /\ \E p \in projects : p.id = t.project_id /\ p.created_by = NULL
  /\ \E i \in 1..Len(activity_log) : activity_log[i].user_id = NULL

----------------------------------------------------------------------------
(* Claims about deleting a project *)

\* the last call was a deleteProject that found its project and returned
ProjectDeleted(l) == l.op = "deleteProject" /\ l.ok /\ l.prior # {}

\* C15: after a successful deleteProject(X), getProjectTasks(X) is empty,
\* getProject(X) is null and no task or custom field of X is stored, while
\* the tasks and custom fields of every other project are as before.
C15_DeleteCascades ==
  [][ProjectDeleted(last') =>
       /\ getProjectTasks(World', last'.args[1]) = <<>>
       /\ getProject(World', last'.args[1]) = NULL
       /\ \A f \in custom_fields' : f.project_id # last'.args[1]
       /\ \A pid \in 1..nextId : pid # last'.args[1] =>
            /\ getProjectTasks(World', pid) = getProjectTasks(World, pid)
            /\ {f \in custom_fields' : f.project_id = pid}
                 = {f \in custom_fields : f.project_id = pid}]_vars

\* C16: after a project with tasks is deleted, every activity row that
\* referenced one of the deleted tasks is still present, with its task
\* reference cleared.
C16_LogOutlivesProject ==
  [][ProjectDeleted(last') =>
       \A i \in 1..Len(activity_log) :
         (\E t \in tasks \ tasks' : t.id = activity_log[i].task_id) =>
           \E j \in 1..Len(activity_log') :
             activity_log'[j] = [activity_log[i] EXCEPT !.task_id = NullId]]_vars

----------------------------------------------------------------------------
(* Claims about bulk import *)

\* an item the demo import can create: it names a project that was stored
\* when the call was made
Importable(item) ==
  Has(item, "project_id") /\ item.project_id # NullId /\ item.project_id \in last.prior.found

\* the items of the last import that could be created, in input order
ImportableItems == SelectSeq(last.args[1], Importable)

\* C17: in demo mode importTasks never fails and returns exactly one task for
\* each item that could be created, in input order, whatever the items before
\* it were; each project's stored task list grows by exactly the returned
\* tasks of that project.
C17_ImportBestEffort ==
  (~supabase /\ last.op = "importTasks") =>
    /\ last.ok
    /\ Len(last.ret) = Len(ImportableItems)
    /\ \A k \in 1..Len(last.ret) :
         /\ last.ret[k].project_id = ImportableItems[k].project_id
         /\ \A j \in 1..Len(last.ret) : j < k => last.ret[j].id < last.ret[k].id
    /\ \A pid \in ImportPids :
         getProjectTasks(World, pid)
           = last.prior.tasks[pid] \o SelectSeq(last.ret, LAMBDA t : t.project_id = pid)

\* C17 witness: five items were imported, the third could not be created, and
\* the four others were created and returned
C17_Witness ==
  /\ ~supabase /\ last.op = "importTasks" /\ last.ok
  /\ Len(last.args[1]) = 5 /\ Len(last.ret) = 4
  /\ ~Importable(last.args[1][3])
  /\ \A t \in Range(last.ret) : t \in StoredTasks

\* the tasks stored before the last import
TasksBefore == last.prior.all

\* the last call added a 'tasks_imported' entry to the activity log
ImportLogged ==
  \E i \in 1..Len(activity_log) :
    i > last.logLen /\ activity_log[i].action = "tasks_imported"

\* C18: on the managed backend importTasks is all or nothing: either every
\* item is inserted and returned, or the call fails, no task is created, every
\* project's task list is as before and no 'tasks_imported' entry is written.
C18_ImportAtomic ==
  (supabase /\ last.op = "importTasks") =>
    IF last.ok
    THEN /\ Len(last.ret) = Len(last.args[1])
         /\ tasks = TasksBefore \cup Range(last.ret)
         /\ \A k \in 1..Len(last.ret) :
              /\ last.ret[k] \in tasks /\ last.ret[k] \notin TasksBefore
              /\ Has(last.args[1][k], "project_id")
              /\ last.ret[k].project_id = last.args[1][k].project_id
              /\ \A j \in 1..Len(last.ret) : j # k => last.ret[j].id # last.ret[k].id
    ELSE /\ \A pid \in ImportPids : getProjectTasks(World, pid) = last.prior.tasks[pid]
         /\ tasks = TasksBefore
         /\ Len(activity_log) = last.logLen
         /\ ~ImportLogged

\* C18 witness: a signed-in member imported three items of which the first
\* two could be inserted and the third could not; the call failed and the
\* project has no task
C18_Witness ==
  /\ supabase /\ last.op = "importTasks" /\ ~last.ok
  /\ Len(last.args[1]) = 3
  /\ \A k \in 1..2 : /\ Has(last.args[1][k], "project_id")
                       /\ last.args[1][k].project_id \in last.prior.found
                       /\ ~Has(last.args[1][k], "progress")
  /\ Has(last.args[1][3], "progress")
  /\ tasks = TasksBefore /\ ~ImportLogged

----------------------------------------------------------------------------
(* Claims about the order of project listings *)

\* C19: outside demo mode getUserProjects returns the projects in
\* last_modified-descending order (the most recently modified first).
C19_NewestFirst ==
  (supabase /\ last.op = "getUserProjects" /\ last.ok) =>
    \A i, j \in 1..Len(last.ret) :
      i < j => last.ret[i].last_modified >= last.ret[j].last_modified

----------------------------------------------------------------------------
(* Claims about the choice of backend *)

\* C20: the backend used for authentication and the backend used by the data
\* services are, in every state, the one the configuration selected at start.
C20_BackendFixed ==
  /\ backend \in {"sqlserver", "supabase"}
  /\ authBackend = initialBackend(backend)
  /\ authBackend = backend

----------------------------------------------------------------------------
(* Claims about signup *)

\* every users row has a profiles row with its id and the other way round
UsersMatchProfiles(db) ==
  {u.id : u \in db.users} = {p.id : p \in db.profiles}

\* C21: signup is all or nothing: a users row exists exactly when a profiles
\* row with the same id exists; a request whose email is already registered is
\* answered 409 and adds no row; any other failure inside the transaction is
\* answered 500 with both inserts rolled back; 201 is answered only when both
\* rows are committed.
C21_SignupAtomic ==
  /\ UsersMatchProfiles(dbo)
  /\ last.op = "signup" =>
       /\ last.ret \in {201, 400, 409, 500}
       /\ last.ret = 409 => /\ dbo = last.prior
                            /\ \E u \in last.prior.users : u.email = last.args[1]
       /\ last.ret \in {400, 500} => dbo = last.prior
       /\ last.ret = 201 =>
            /\ last.args[3] = "none"
            /\ \E u \in dbo.users \ last.prior.users :
                 /\ u.email = last.args[1]
                 /\ dbo.users = last.prior.users \cup {u}
                 /\ \E q \in dbo.profiles \ last.prior.profiles :
                      q.id = u.id /\ dbo.profiles = last.prior.profiles \cup {q}
       /\ (last.args[3] \in {"users", "profiles", "commit"} /\ last.args[1] # <<>>
             /\ last.args[2] # "" /\ ~\E u \in last.prior.users : u.email = last.args[1])
            => last.ret = 500

\* C21 witness: with a user already registered, a signup for a new address
\* failed at the insert into dbo.profiles; it was answered 500 and no row of
\* either table was added
C21_Witness ==
  /\ last.op = "signup" /\ last.args[3] = "profiles" /\ last.ret = 500
  /\ last.args[1] # <<>> /\ last.args[2] # ""
  /\ dbo.users # {} /\ dbo = last.prior
  /\ \A u \in dbo.users : u.email # last.args[1]

----------------------------------------------------------------------------
(* Claims about overlapping calls *)

\* two calls of op on the same row by different principals have both returned
BothDone(op) ==
  /\ Len(inflight) = 2
  /\ \A i \in 1..2 : inflight[i].op = op /\ inflight[i].pc = "done"
  /\ inflight[1].id = inflight[2].id
  /\ \A i \in 1..2 : inflight[i].order > 0

\* the call whose write was applied first, and the one applied last
FirstWrite  == IF inflight[1].order < inflight[2].order THEN inflight[1] ELSE inflight[2]
SecondWrite == IF inflight[1].order < inflight[2].order THEN inflight[2] ELSE inflight[1]

\* two principals who both are owner or team member of a project have each
\* sent an update of it that would be accepted on its own
TwoEditors ==
  /\ BothDone("updateProject")
  /\ FirstWrite.caller # SecondWrite.caller
  /\ FirstWrite.before # NoRow
  /\ \A c \in {FirstWrite, SecondWrite} :
       /\ Member(c.caller, FirstWrite.before)
       /\ Member(c.caller, Merge(FirstWrite.before, c.updates))

\* the stored project is the row before the two writes with the first write
\* and then the second write merged in
LastWriteWins ==
  \E p \in projects :
    /\ p.id = FirstWrite.id
    /\ p = Merge(Merge(FirstWrite.before, FirstWrite.updates), SecondWrite.updates)

----------------------------------------------------------------------------
(* TaskService.createTask, local and managed variant side by side: the     *)
(* same input is given to both branches, each over its own store            *)

MaxEquivIds == 3

\* what a caller sees of a createTask call: whether it threw, the error, and
\* the returned task without its id
Outcome(r) ==
  [ok |-> r.ok, err |-> r.err,
   task |-> IF r.ok THEN [r.ret EXCEPT !.id = NullId] ELSE NoRow]

\* project 1 comes to exist in both stores: the sample project of
\* initializeDemoData in localStorage, and a project the signed-in principal
\* creates on the backend
SetUpBoth ==
  /\ nextId = DemoId /\ authUser # NULL
  /\ LET d == initializeDemoData([World EXCEPT !.supabase = FALSE])
         m == createProject(World, [status |-> "active", team_members |-> {}], TRUE)
     IN  Step("setUpBoth", <<>>, NULL,
              [m EXCEPT !.w.lsProjects = d.w.lsProjects,
                        !.w.lsActivityLog = d.w.lsActivityLog,
                        !.w.demoProjects = d.w.demoProjects,
                        !.w.demoActivityLog = d.w.demoActivityLog])

\* createTask(task) through the branch taken when supabase is null and through
\* the branch taken when it is configured; prior keeps both outcomes
CreateTaskBoth(menu) ==
  \E task \in menu :
    /\ nextId > DemoId /\ nextId <= MaxEquivIds
    /\ LET d == createTask([World EXCEPT !.supabase = FALSE], task, TRUE)
           m == createTask([World EXCEPT !.supabase = TRUE], task, TRUE)
       IN  Step("createTaskBoth", <<task>>,
                [local |-> Outcome(d), managed |-> Outcome(m)],
                [m EXCEPT !.w.lsProjects = d.w.lsProjects,
                          !.w.nextId = IF d.ok \/ m.ok THEN nextId + 1 ELSE nextId,
                          !.ok = d.ok /\ m.ok])

EquivTaskMenu ==
  {[project_id |-> p] : p \in {DemoId, DemoId + 1}}
    \cup {[project_id |-> DemoId, start_date |-> a, end_date |-> b] :
            a \in {Now, Now + 1}, b \in {Now, Now + 1}}
    \cup {[project_id |-> DemoId, progress |-> g] : g \in {-1, 0, 50, 100, 101}}
    \cup {[project_id |-> DemoId, status |-> s] : s \in {"in-progress", "on-hold"}}

NextEquiv ==
  \/ SignIn({"u1"})
  \/ SetUpBoth
  \/ CreateTaskBoth(EquivTaskMenu)

SpecEquiv == InitManaged /\ [][NextEquiv]_vars

\* C23: TaskService.createTask behaves the same in the local and in the
\* managed variant: given the same input, both fail with the same kind of
\* error or both return a task with the same field values, the id aside.
C23_CreateTaskEquivalent ==
  last.op = "createTaskBoth" =>
    /\ last.prior.local.ok = last.prior.managed.ok
    /\ last.prior.local.err = last.prior.managed.err
    /\ last.prior.local.task = last.prior.managed.task

----------------------------------------------------------------------------
(* Claims about ids that do not resolve, demo mode *)

NotFoundErrors == {"Project not found", "Task not found"}

\* the call recorded in l found what its arguments name in the blob w held
\* before it ran
Resolves(w, l) ==
  CASE l.op = "createTask" ->
         Has(l.args[1], "project_id") /\ FindIndex(w.lsProjects, l.args[1].project_id) # 0
    [] l.op \in {"updateTask", "deleteTask", "updateTaskProgress"} ->
         FindTask(w, l.args[1], l.args[2]) # {}
    [] OTHER -> TRUE

TaskWrites == {"createTask", "updateTask", "deleteTask", "updateTaskProgress"}

\* C24: in demo mode createTask with a project_id that resolves to no project,
\* and updateTask, deleteTask and updateTaskProgress with a task id or project
\* id that does not resolve, fail with a not-found error and leave the
\* persisted projects blob as it was: a call that returns has resolved, and a
\* call that throws has thrown not-found and saved nothing.
C24_NotFoundLeavesBlob ==
  [][(~supabase /\ last'.op \in TaskWrites) =>
       /\ last'.ok => Resolves(World, last')
       /\ ~last'.ok => (last'.err \in NotFoundErrors /\ lsProjects' = lsProjects)]_vars

\* C24 witness: a deleteTask naming a task the project does not hold has
\* thrown, while the blob holds a project with a task
C24_Witness ==
  /\ ~supabase /\ last.op = "deleteTask" /\ ~last.ok /\ last.err = "Task not found"
  /\ \E i \in 1..Len(lsProjects) : Len(lsProjects[i].tasks) > 0

----------------------------------------------------------------------------
(* The project page (pages/ProjectDetail.tsx)                               *)

\* e-mail addresses as the words they are made of; includes(s) looks for a word
Includes(email, word) == word \in Range(email)

\* the address each principal signed up with
Email(u) ==
  CASE u = "u1" -> <<"alice", "example.com">>
    [] u = "u2" -> <<"bob", "admin", "example.com">>
    [] OTHER    -> <<>>

\* the address the page compares with
SpecialEmail == <<"devesh.pillewan", "amla.io">>

\* const isOwnerOrAdmin = useMemo(...): principal is useAuth().user, page the
\* project state
isOwnerOrAdmin(principal, page) ==
  IF principal = NULL \/ page = <<>> THEN FALSE
  ELSE LET project   == page[1]
           userEmail == Email(principal)
       IN  \/ principal = project.created_by
           \/ project.created_by = NULL
           \/ userEmail = SpecialEmail
           \/ Includes(userEmail, "admin")
           \/ Includes(userEmail, "moderator")

\* loadProject(id): setProject(projectData) when getProject returned a
\* project; otherwise the page is left for /projects
LoadProject(ids) ==
  \E id \in ids :
    /\ pageProject' = IF FindProject(World, id) # {} THEN <<getProject(World, id)>> ELSE <<>>
    /\ last' = [NoCall EXCEPT !.op = "loadProject", !.args = <<id>>]
    /\ UNCHANGED <<dbo, inflight, supabase, demoVars, dbVars, authUser, authUsers, nextId,
                   clock, authVars>>

MaxPageIds == 2

PageProjectMenu == {[status |-> "active", team_members |-> m] : m \in {{}, {"u2"}}}

NextPage ==
  \/ SignIn(Users)
  \/ SignOut
  \/ CreateProject(PageProjectMenu, {TRUE}, MaxPageIds)
  \/ DeleteUser({"u1"})
  \/ LoadProject(1..MaxPageIds)

SpecPage == InitManaged /\ [][NextPage]_vars

\* C25: the flag the project page passes to the permissions panel as isOwner
\* is true only for the owner of the project shown: a signed-in principal who
\* is not the owner is never given it.
C25_OwnerFlagOnlyForOwner ==
  (user # NULL /\ user = authUser /\ isOwnerOrAdmin(user, pageProject)) =>
    user = pageProject[1].created_by

----------------------------------------------------------------------------
(* Claims about ProjectService.deleteProject, demo mode *)

Without(list, id) == SelectSeq(list, LAMBDA p : p.id # id)

\* a demo-mode deleteProject whose id matched no project of the list
DeleteMissed(l) == l.op = "deleteProject" /\ l.prior = {}

\* what such a call leaves behind: no error, nothing saved, nothing logged
NothingSaved ==
  /\ last'.ok
  /\ lsProjects' = lsProjects
  /\ lsActivityLog' = lsActivityLog

\* the log gained exactly one entry, a 'project_deleted' of project id
OneDeletionLogged(id) ==
  /\ Len(lsActivityLog') = Len(lsActivityLog) + 1
  /\ \E i \in 1..Len(lsActivityLog') :
       /\ lsActivityLog'[i].action = "project_deleted"
       /\ lsActivityLog'[i].project_id = id
       /\ [k \in 1..Len(lsActivityLog) |->
             lsActivityLog'[IF k < i THEN k ELSE k + 1]] = lsActivityLog

\* C26: in demo mode deleteProject(id) with an id that matches no stored
\* project returns without error and leaves the persisted projects and the
\* activity log unchanged; with a matching id it removes exactly that project
\* from the persisted projects and adds exactly one 'project_deleted' entry.
C26_DeleteProjectFrame ==
  [][(~supabase /\ last'.op = "deleteProject") =>
       IF DeleteMissed(last') THEN NothingSaved
       ELSE /\ last'.ok
            /\ lsProjects' = Without(lsProjects, last'.args[1])
            /\ OneDeletionLogged(last'.args[1])]_vars

----------------------------------------------------------------------------
(* Claims about the two copies of the demo projects *)

\* the tasks a list of projects holds for project id
TasksOf(list, id) ==
  IF FindIndex(list, id) # 0 THEN Range(list[FindIndex(list, id)].tasks) ELSE {}

ProjectWrites == {"createProject", "updateProject", "deleteProject"}

\* C27: in demo mode a task TaskService stored in project X is not lost by a
\* later ProjectService.createProject, updateProject or deleteProject of
\* another project: after the call the persisted blob (getProjectTasks) and
\* the in-memory list (getProject) both still hold every task X had.
C27_ProjectOpsKeepTasks ==
  [][(~supabase /\ last'.op \in ProjectWrites) =>
       \A i \in 1..Len(lsProjects) :
         LET X == lsProjects[i].id
         IN  ~(last'.op = "deleteProject" /\ X \in last'.prior) =>
               /\ TasksOf(lsProjects, X) \subseteq TasksOf(lsProjects', X)
               /\ TasksOf(lsProjects, X) \subseteq TasksOf(demoProjects', X)]_vars

----------------------------------------------------------------------------
(* Overlapping updateTaskProgress calls on the managed backend: the inputs *)

CallTaskMenu ==
  {[project_id |-> 1, progress |-> 50, status |-> "in-progress"], [project_id |-> 1]}

CallProgressMenu == {0, 60, 100}

NextCallsTask ==
  \/ SignIn({"u1"})
  \/ CreateProject(CallProjectMenu, {TRUE}, 1)
  \/ CreateTask(CallTaskMenu, {TRUE}, MaxCallIds)
  \/ BeginUpdateTaskProgress(Users, CallIds, CallProgressMenu)
  \/ CallSelect
  \/ CallUpdate
  \/ CallLog

SpecCallsTask == InitManaged /\ [][NextCallsTask]_vars

\* updateTaskProgress(progress) run to completion on the stored task t
ProgressApplied(t, progress) == Merge(t, progressUpdates(t, progress))

\* two updateTaskProgress calls on the same task have both written and returned
TwoProgressCalls ==
  /\ BothDone("updateTaskProgress")
  /\ FirstWrite.ok /\ SecondWrite.ok
  /\ FirstWrite.before # NoRow

\* the task the two calls wrote, as it is stored now
WrittenTask == CHOOSE t \in tasks : t.id = FirstWrite.id

\* C28: after two overlapping updateTaskProgress calls on one task of the
\* managed backend, the stored progress and status are those of running the
\* two calls one after the other in some order, and the task does not end with
\* 0 < progress < 100 together with status completed or not-started.
C28_ProgressSerializable ==
  TwoProgressCalls =>
    /\ \E c \in {<<FirstWrite, SecondWrite>>, <<SecondWrite, FirstWrite>>} :
         LET serial == ProgressApplied(ProgressApplied(FirstWrite.before,
                                                       c[1].updates.progress),
                                       c[2].updates.progress)
         IN  WrittenTask.progress = serial.progress /\ WrittenTask.status = serial.status
    /\ ~(/\ WrittenTask.progress > 0 /\ WrittenTask.progress < 100
         /\ WrittenTask.status \in {"completed", "not-started"})

----------------------------------------------------------------------------
(* Claims about dependency references *)

\* id d names a stored task of t's project other than t
ValidDependency(t, d) ==
  /\ d # t.id
  /\ \E dep \in StoredTasks : dep.id = d /\ dep.project_id = t.project_id

\* C29: dependency references stay valid: every id in a stored task's
\* dependencies is the id of an existing task of the same project other than
\* the task itself, so a deleted task is listed by no remaining task.
C29_DependenciesValid ==
  /\ \A t \in StoredTasks : \A d \in Range(t.dependencies) : ValidDependency(t, d)
  /\ (last.op = "deleteTask" /\ last.ok) =>
       \A t \in StoredTasks : last.args[1] \notin Range(t.dependencies)

----------------------------------------------------------------------------
(* Demo mode, progress of a dependency: the inputs *)

MaxGateIds == 3

GateIds == (DemoId + 1)..MaxGateIds

GateTaskMenu ==
  {[project_id |-> DemoId, status |-> s] :
     s \in {"not-started", "completed", "on-hold", "done"}}
    \cup {[project_id |-> DemoId, dependencies |-> <<d>>] : d \in GateIds}

NextGate ==
  \/ InitializeDemoData
  \/ CreateTask(GateTaskMenu, {TRUE}, MaxGateIds)
  \/ UpdateTaskProgress({50, 100}, {TRUE}, GateIds, {DemoId})
  \/ CanStartTask(GateIds)

SpecGate == InitDemo /\ [][NextGate]_vars

\* the last call was a successful updateTaskProgress(d, p) with 0 < p < 100
MidProgress ==
  /\ last.op = "updateTaskProgress" /\ last.ok
  /\ last.args[3] > 0 /\ last.args[3] < 100

\* C30: after a successful updateTaskProgress(d, p) with 0 < p < 100, task d
\* does not count as finished: canStartTask of every task that lists d as a
\* dependency returns false, whatever the status of d was before the call.
C30_MidProgressBlocksDependants ==
  MidProgress =>
    \A t \in StoredTasks : last.args[1] \in Range(t.dependencies) => ~CanStart(t.id)

====
